---------------------------- MODULE Spec2Model ----------------------------
(***************************************************************************)
(* Model of the lsh-core firmware engine: the super-loop (LSH::loop), the  *)
(* Clickable input FSM, the Actuator outputs, the NetworkClicks pending    *)
(* maps, the EspCom link state and the Deserializer dispatch.              *)
(*                                                                         *)
(* Time is the millisecond counter cached by timeKeeper, an unsigned       *)
(* counter that wraps to 0 (TimeModulus).  The loop specifications start   *)
(* the counter at 0 and cap it at MaxTime, below the wrap; SpecCalls lets  *)
(* it wrap.  The timing tunables are build-time macros in the source       *)
(* (CONFIG_ macros); the model is a build with small values that keep     *)
(* their order (debounce < long < super-long, check interval < timeout).   *)
(***************************************************************************)
EXTENDS Integers, Sequences, FiniteSets, TLC

VARIABLES
    now,                                \* timeKeeper::now
    cfg,                                \* the static topology given by Configurator::configure()
    actuators,                          \* Actuators::actuators (index -> Actuator fields)
    clickables,                         \* Clickables::clickables (index -> Clickable FSM fields)
    indicators,                         \* Indicators::indicators (index -> Indicator fields)
    longClickedNetworkClickables,       \* NetworkClicks map: clickable index -> request time
    superLongClickedNetworkClickables,  \* NetworkClicks map: clickable index -> request time
    lastSentPayloadTime_ms,             \* EspCom
    lastReceivedPayloadTime_ms,         \* EspCom
    firstValidPayloadReceived,          \* EspCom
    mustSendState,                      \* LSH::loop static
    mustCheckNetworkClicks,             \* LSH::loop static
    lastClickablesCheck_ms,             \* LSH::loop static
    lastNetworkClickCheckTime_ms,       \* LSH::loop static
    lastAutoOffCheckTime_ms,            \* LSH::loop static
    pc,                                 \* position inside LSH::loop
    pollIdx,                            \* loop variable i of the clickables for-loop
    clickResult,                        \* value returned by the last clickDetection()
    doc,                                \* the record decoded by the last receiveAndDispatch()
    dispatchResult,                     \* the DispatchResult returned by the last receiveAndDispatch()
    out,                                \* observation: messages written to the serial link in this iteration
    acts,                               \* observation: local click actions run in this iteration
    obs,                                \* observation: bookkeeping for the properties (see ObsInit)
    rxCount,                            \* observation: number of inbound frames delivered so far
    ref,                                \* the reference click machine of the transition table
    setup,                              \* the registries filled by Configurator::configure() (see NewRegistry)
    inputBuffer,                        \* EspCom::inputBuffer[0 .. bytesRead-1] (text framing)
    runs                                \* two runs of the loop side by side (see NewRun)

vars == <<now, cfg, actuators, clickables, indicators,
          longClickedNetworkClickables, superLongClickedNetworkClickables,
          lastSentPayloadTime_ms, lastReceivedPayloadTime_ms, firstValidPayloadReceived,
          mustSendState, mustCheckNetworkClicks, lastClickablesCheck_ms,
          lastNetworkClickCheckTime_ms, lastAutoOffCheckTime_ms,
          pc, pollIdx, clickResult, doc, dispatchResult, out, acts, obs, rxCount, ref,
          setup, inputBuffer, runs>>

----------------------------------------------------------------------------
(* Bounds of the model *)

MaxTime == 8          \* the clock stops advancing here
MaxDt == 1            \* largest step of millis() between two loop iterations
MaxGap == 3           \* largest gap between two polls fed to a single clickable
MaxFrames == 2        \* inbound frames delivered by the bridge in one run

(* Tunables (build-time macros of the source), small values *)

ACTUATOR_DEBOUNCE_TIME_MS == 2
CLICKABLE_DEBOUNCE_TIME_MS == 1
CLICKABLE_LONG_CLICK_TIME_MS == 2
CLICKABLE_SUPER_LONG_CLICK_TIME_MS == 3
DELAY_AFTER_RECEIVE_MS == 1
NETWORK_CLICK_CHECK_INTERVAL_MS == 1
ACTUATORS_AUTO_OFF_CHECK_INTERVAL_MS == 2
LCNB_TIMEOUT_MS == 2
PING_INTERVAL_MS == 5
CONNECTION_TIMEOUT_MS == PING_INTERVAL_MS + 1

(* Registry sizes of the modelled device (all slots registered) *)

CONFIG_MAX_ACTUATORS == 2
CONFIG_MAX_CLICKABLES == 1
CONFIG_MAX_INDICATORS == 1

ActIdx == 0 .. (CONFIG_MAX_ACTUATORS - 1)
ClkIdx == 0 .. (CONFIG_MAX_CLICKABLES - 1)
IndIdx == 0 .. (CONFIG_MAX_INDICATORS - 1)

\* timeKeeper::now is an unsigned counter that wraps to 0; its 32 bits are
\* scaled to 4 here, every timing threshold staying below half the range
TimeModulus == 16

\* seeded fault: the difference taken as a signed number, without wrap-around
Elapsed_signed(a, b) == a - b

\* timeKeeper arithmetic: unsigned difference of two timestamps
Elapsed(a, b) == (a - b) % TimeModulus

----------------------------------------------------------------------------
(* Actuator *)

\* Actuator constructor: the pin gets normalState, actualState starts false
NewActuator(c) ==
    [actualState |-> FALSE, lastTimeSwitched |-> 0, hw |-> c.defaultState]

\* seeded fault: setState without the debounce test
setState_noDebounce(a, state, t) ==
    IF a.actualState = state
    THEN [a |-> a, changed |-> FALSE]
    ELSE [a |-> [actualState |-> state, lastTimeSwitched |-> t, hw |-> state],
          changed |-> TRUE]

\* Actuator::setState on one Actuator object a at cached time t
setState(a, state, t) ==
    IF a.actualState = state
    THEN [a |-> a, changed |-> FALSE]
    ELSE IF ACTUATOR_DEBOUNCE_TIME_MS # 0
            /\ Elapsed(t, a.lastTimeSwitched) < ACTUATOR_DEBOUNCE_TIME_MS
         THEN [a |-> a, changed |-> FALSE]
         ELSE [a |-> [actualState |-> state, lastTimeSwitched |-> t, hw |-> state],
               changed |-> TRUE]

toggleState(a, t) == setState(a, ~a.actualState, t)

\* seeded fault: checkAutoOffTimer comparing with > instead of >=
checkAutoOffTimer_gt(a, c, t) ==
    IF a.actualState /\ c.autoOffTimer_ms # 0
       /\ Elapsed(t, a.lastTimeSwitched) > c.autoOffTimer_ms
    THEN setState(a, FALSE, t)
    ELSE [a |-> a, changed |-> FALSE]

\* Actuator::checkAutoOffTimer; c is the actuator's configuration
checkAutoOffTimer(a, c, t) ==
    IF a.actualState /\ c.autoOffTimer_ms # 0
       /\ Elapsed(t, a.lastTimeSwitched) >= c.autoOffTimer_ms
    THEN setState(a, FALSE, t)
    ELSE [a |-> a, changed |-> FALSE]

\* Result of an operation on the whole actuators array
ActRes(A, changed) == [A |-> A, changed |-> changed]

\* Actuators::actuatorsWithAutoOffIndexes as built by Actuators::finalizeSetup
RECURSIVE AutoOffIndexes(_, _)
AutoOffIndexes(C, i) ==
    IF i >= CONFIG_MAX_ACTUATORS THEN <<>>
    ELSE (IF C.act[i + 1].autoOffTimer_ms # 0 THEN <<i>> ELSE <<>>)
         \o AutoOffIndexes(C, i + 1)

\* Actuators::actuatorsAutoOffTimersCheck: loop over the precomputed indexes
RECURSIVE autoOffLoop(_, _, _, _)
autoOffLoop(A, C, list, t) ==
    IF list = <<>> THEN ActRes(A, FALSE)
    ELSE LET i == Head(list)
             r == checkAutoOffTimer(A[i], C.act[i + 1], t)
             rest == autoOffLoop([A EXCEPT ![i] = r.a], C, Tail(list), t)
         IN ActRes(rest.A, r.changed \/ rest.changed)

\* seeded fault: the auto-off sweep switches but reports no change
actuatorsAutoOffTimersCheck_silent(A, C, t) ==
    ActRes(autoOffLoop(A, C, AutoOffIndexes(C, 0), t).A, FALSE)

actuatorsAutoOffTimersCheck(A, C, t) == autoOffLoop(A, C, AutoOffIndexes(C, 0), t)

\* seeded fault: the device-wide turn-off without the hasProtection test
RECURSIVE turnOffLoop_ignoreProtection(_, _, _, _)
turnOffLoop_ignoreProtection(A, C, i, t) ==
    IF i >= CONFIG_MAX_ACTUATORS THEN ActRes(A, FALSE)
    ELSE LET r == setState(A[i], FALSE, t)
             rest == turnOffLoop_ignoreProtection([A EXCEPT ![i] = r.a], C, i + 1, t)
         IN ActRes(rest.A, r.changed \/ rest.changed)

\* Actuators::turnOffUnprotectedActuators: for i in 0 .. totalActuators-1
RECURSIVE turnOffLoop(_, _, _, _)
turnOffLoop(A, C, i, t) ==
    IF i >= CONFIG_MAX_ACTUATORS THEN ActRes(A, FALSE)
    ELSE LET r == IF ~C.act[i + 1].isProtected
                  THEN setState(A[i], FALSE, t)
                  ELSE [a |-> A[i], changed |-> FALSE]
             rest == turnOffLoop([A EXCEPT ![i] = r.a], C, i + 1, t)
         IN ActRes(rest.A, r.changed \/ rest.changed)

turnOffUnprotectedActuators(A, C, t) == turnOffLoop(A, C, 0, t)

----------------------------------------------------------------------------
(* Clickable *)

\* enum ActionFired, in its declared order (NONE < LONG < SUPER_LONG)
ActionRank(a) == CASE a = "NONE" -> 0 [] a = "LONG" -> 1 [] a = "SUPER_LONG" -> 2

\* Clickable member initializers
NewClickable == [currentState |-> "IDLE", stateChangeTime |-> 0, lastActionFired |-> "NONE"]

\* Clickable::check, run by Clickables::finalizeSetup: derives the quick/valid flags
check(c) ==
    LET quick == c.isShortClickable /\ ~c.isLongClickable /\ ~c.isSuperLongClickable
        valid == (c.isShortClickable \/ c.isLongClickable \/ c.isSuperLongClickable)
                 /\ (c.actuatorsShort # <<>> \/ c.actuatorsLong # <<>>
                     \/ c.actuatorsSuperLong # <<>>)
    IN [c EXCEPT !.isChecked = TRUE, !.isQuickClickable = quick, !.isValid = valid]

\* seeded fault: the RELEASED case without the transition to IDLE
releasedCase_staysReleased(k, c) ==
    IF c.isQuickClickable THEN [k |-> k, res |-> "NO_CLICK"]
    ELSE IF k.lastActionFired = "NONE"
         THEN [k |-> k,
               res |-> IF c.isShortClickable THEN "SHORT_CLICK"
                       ELSE "NO_CLICK_NOT_SHORT_CLICKABLE"]
         ELSE [k |-> k, res |-> "NO_CLICK"]

\* seeded fault: the RELEASED case forgetting that a long action already fired
releasedCase_shortAfterLong(k, c) ==
    LET k2 == [k EXCEPT !.currentState = "IDLE"]
    IN IF c.isQuickClickable THEN [k |-> k2, res |-> "NO_CLICK"]
       ELSE [k |-> k2,
             res |-> IF c.isShortClickable THEN "SHORT_CLICK"
                     ELSE "NO_CLICK_NOT_SHORT_CLICKABLE"]

\* seeded fault: the RELEASED case without the quick-click test
releasedCase_noQuickTest(k, c) ==
    LET k2 == [k EXCEPT !.currentState = "IDLE"]
    IN IF k.lastActionFired = "NONE"
       THEN [k |-> k2,
             res |-> IF c.isShortClickable THEN "SHORT_CLICK"
                     ELSE "NO_CLICK_NOT_SHORT_CLICKABLE"]
       ELSE [k |-> k2, res |-> "NO_CLICK"]

\* the RELEASED case of clickDetection (also reached by fall-through from PRESSED)
releasedCase(k, c) ==
    LET k2 == [k EXCEPT !.currentState = "IDLE"]
    IN IF c.isQuickClickable THEN [k |-> k2, res |-> "NO_CLICK"]
       ELSE IF k.lastActionFired = "NONE"
            THEN [k |-> k2,
                  res |-> IF c.isShortClickable THEN "SHORT_CLICK"
                          ELSE "NO_CLICK_NOT_SHORT_CLICKABLE"]
            ELSE [k |-> k2, res |-> "NO_CLICK"]

\* seeded fault: clickDetection testing the long threshold before the super-long one
clickDetection_longFirst(k, c, isPressed, t) ==
    CASE k.currentState = "IDLE" ->
            IF isPressed
            THEN [k |-> [k EXCEPT !.currentState = "DEBOUNCING", !.stateChangeTime = t],
                  res |-> "NO_CLICK"]
            ELSE [k |-> k, res |-> "NO_CLICK"]
      [] k.currentState = "DEBOUNCING" ->
            IF Elapsed(t, k.stateChangeTime) >= CLICKABLE_DEBOUNCE_TIME_MS
            THEN IF isPressed
                 THEN [k |-> [currentState |-> "PRESSED", stateChangeTime |-> t,
                              lastActionFired |-> "NONE"],
                       res |-> IF c.isQuickClickable THEN "SHORT_CLICK_QUICK" ELSE "NO_CLICK"]
                 ELSE [k |-> [k EXCEPT !.currentState = "IDLE"], res |-> "NO_CLICK"]
            ELSE [k |-> k, res |-> "NO_CLICK"]
      [] k.currentState = "PRESSED" ->
            IF isPressed
            THEN LET pressDuration == Elapsed(t, k.stateChangeTime)
                 IN IF c.isLongClickable
                       /\ ActionRank(k.lastActionFired) < ActionRank("LONG")
                       /\ pressDuration >= CLICKABLE_LONG_CLICK_TIME_MS
                    THEN [k |-> [k EXCEPT !.lastActionFired = "LONG"],
                          res |-> "LONG_CLICK"]
                    ELSE IF c.isSuperLongClickable
                            /\ ActionRank(k.lastActionFired) < ActionRank("SUPER_LONG")
                            /\ pressDuration >= CLICKABLE_SUPER_LONG_CLICK_TIME_MS
                         THEN [k |-> [k EXCEPT !.lastActionFired = "SUPER_LONG"],
                               res |-> "SUPER_LONG_CLICK"]
                         ELSE [k |-> k, res |-> "NO_CLICK_KEEPING_CLICKED"]
            ELSE releasedCase([k EXCEPT !.currentState = "RELEASED"], c)
      [] k.currentState = "RELEASED" -> releasedCase(k, c)

\* Clickable::clickDetection: k the FSM fields, c the flags, isPressed the pin level
clickDetection(k, c, isPressed, t) ==
    CASE k.currentState = "IDLE" ->
            IF isPressed
            THEN [k |-> [k EXCEPT !.currentState = "DEBOUNCING", !.stateChangeTime = t],
                  res |-> "NO_CLICK"]
            ELSE [k |-> k, res |-> "NO_CLICK"]
      [] k.currentState = "DEBOUNCING" ->
            IF Elapsed(t, k.stateChangeTime) >= CLICKABLE_DEBOUNCE_TIME_MS
            THEN IF isPressed
                 THEN [k |-> [currentState |-> "PRESSED", stateChangeTime |-> t,
                              lastActionFired |-> "NONE"],
                       res |-> IF c.isQuickClickable THEN "SHORT_CLICK_QUICK" ELSE "NO_CLICK"]
                 ELSE [k |-> [k EXCEPT !.currentState = "IDLE"], res |-> "NO_CLICK"]
            ELSE [k |-> k, res |-> "NO_CLICK"]
      [] k.currentState = "PRESSED" ->
            IF isPressed
            THEN LET pressDuration == Elapsed(t, k.stateChangeTime)
                 IN IF c.isSuperLongClickable
                       /\ ActionRank(k.lastActionFired) < ActionRank("SUPER_LONG")
                       /\ pressDuration >= CLICKABLE_SUPER_LONG_CLICK_TIME_MS
                    THEN [k |-> [k EXCEPT !.lastActionFired = "SUPER_LONG"],
                          res |-> "SUPER_LONG_CLICK"]
                    ELSE IF c.isLongClickable
                            /\ ActionRank(k.lastActionFired) < ActionRank("LONG")
                            /\ pressDuration >= CLICKABLE_LONG_CLICK_TIME_MS
                         THEN [k |-> [k EXCEPT !.lastActionFired = "LONG"],
                               res |-> "LONG_CLICK"]
                         ELSE [k |-> k, res |-> "NO_CLICK_KEEPING_CLICKED"]
            ELSE releasedCase([k EXCEPT !.currentState = "RELEASED"], c)
      [] k.currentState = "RELEASED" -> releasedCase(k, c)

\* Clickable::shortClick: toggle every actuator of actuatorsShort
RECURSIVE toggleLoop(_, _, _)
toggleLoop(A, list, t) ==
    IF list = <<>> THEN ActRes(A, FALSE)
    ELSE LET i == Head(list)
             r == toggleState(A[i], t)
             rest == toggleLoop([A EXCEPT ![i] = r.a], Tail(list), t)
         IN ActRes(rest.A, r.changed \/ rest.changed)

shortClick(A, c, t) ==
    IF ~c.isShortClickable THEN ActRes(A, FALSE)
    ELSE toggleLoop(A, c.actuatorsShort, t)

\* number of actuators of the list that are ON (actuatorsLongOn)
RECURSIVE CountOn(_, _)
CountOn(A, list) ==
    IF list = <<>> THEN 0
    ELSE (IF A[Head(list)].actualState THEN 1 ELSE 0) + CountOn(A, Tail(list))

\* setState(stateToSet) on every actuator of the list
RECURSIVE setLoop(_, _, _, _)
setLoop(A, list, stateToSet, t) ==
    IF list = <<>> THEN ActRes(A, FALSE)
    ELSE LET i == Head(list)
             r == setState(A[i], stateToSet, t)
             rest == setLoop([A EXCEPT ![i] = r.a], Tail(list), stateToSet, t)
         IN ActRes(rest.A, r.changed \/ rest.changed)

\* seeded fault: longClick switching on when exactly half of the list is on
longClick_tieOn(A, c, t) ==
    IF ~c.isLongClickable THEN ActRes(A, FALSE)
    ELSE CASE c.longClickType = "NORMAL" ->
                setLoop(A, c.actuatorsLong,
                        (CountOn(A, c.actuatorsLong) * 2) <= Len(c.actuatorsLong), t)
           [] c.longClickType = "ON_ONLY" -> setLoop(A, c.actuatorsLong, TRUE, t)
           [] c.longClickType = "OFF_ONLY" -> setLoop(A, c.actuatorsLong, FALSE, t)
           [] OTHER -> ActRes(A, FALSE)

\* Clickable::longClick
longClick(A, c, t) ==
    IF ~c.isLongClickable THEN ActRes(A, FALSE)
    ELSE CASE c.longClickType = "NORMAL" ->
                setLoop(A, c.actuatorsLong,
                        (CountOn(A, c.actuatorsLong) * 2) < Len(c.actuatorsLong), t)
           [] c.longClickType = "ON_ONLY" -> setLoop(A, c.actuatorsLong, TRUE, t)
           [] c.longClickType = "OFF_ONLY" -> setLoop(A, c.actuatorsLong, FALSE, t)
           [] OTHER -> ActRes(A, FALSE)

\* Clickable::superLongClickSelective
RECURSIVE selectiveLoop(_, _, _, _)
selectiveLoop(A, C, list, t) ==
    IF list = <<>> THEN ActRes(A, FALSE)
    ELSE LET i == Head(list)
             r == IF ~C.act[i + 1].isProtected
                  THEN setState(A[i], FALSE, t)
                  ELSE [a |-> A[i], changed |-> FALSE]
             rest == selectiveLoop([A EXCEPT ![i] = r.a], C, Tail(list), t)
         IN ActRes(rest.A, r.changed \/ rest.changed)

superLongClickSelective(A, C, c, t) ==
    IF ~c.isSuperLongClickable \/ c.superLongClickType # "SELECTIVE"
    THEN ActRes(A, FALSE)
    ELSE selectiveLoop(A, C, c.actuatorsSuperLong, t)

\* Clickables::click
click(A, C, c, clickType, t) ==
    CASE clickType = "SHORT" -> shortClick(A, c, t)
      [] clickType = "LONG" -> longClick(A, c, t)
      [] clickType = "SUPER_LONG" ->
            (CASE c.superLongClickType = "NORMAL" -> turnOffUnprotectedActuators(A, C, t)
               [] c.superLongClickType = "SELECTIVE" -> superLongClickSelective(A, C, c, t)
               [] OTHER -> ActRes(A, FALSE))
      [] OTHER -> ActRes(A, FALSE)

\* Clickable::isNetworkClickable
isNetworkClickable(c, clickType) ==
    CASE clickType = "LONG" -> c.isNetworkLongClickable
      [] clickType = "SUPER_LONG" -> c.isNetworkSuperLongClickable
      [] OTHER -> FALSE

\* Clickable::getNetworkFallback
getNetworkFallback(c, clickType) ==
    CASE clickType = "LONG" -> c.longClickFallback
      [] clickType = "SUPER_LONG" -> c.superLongClickFallback
      [] OTHER -> "NONE"


----------------------------------------------------------------------------
(* The state touched by the serial link, the network clicks and the dispatcher,
   threaded through their functions as one record:
     A, L, SL           actuators and the two pending maps
     lastSent, lastRecv, firstValid   EspCom timestamps
     out, acts          the observation logs *)

World == [A |-> actuators,
          L |-> longClickedNetworkClickables,
          SL |-> superLongClickedNetworkClickables,
          lastSent |-> lastSentPayloadTime_ms,
          lastRecv |-> lastReceivedPayloadTime_ms,
          firstValid |-> firstValidPayloadReceived,
          out |-> out,
          acts |-> acts]

\* etl::map operations on a map kept as a function
EmptyMap == [x \in {} |-> 0]
mapPut(m, k, v) == [x \in (DOMAIN m) \cup {k} |-> IF x = k THEN v ELSE m[x]]
mapErase(m, k) == [x \in (DOMAIN m) \ {k} |-> m[x]]

\* the switch (clickType) selecting one of the two maps
mapOf(w, clickType) == IF clickType = "LONG" THEN w.L ELSE w.SL
withMap(w, clickType, m) ==
    IF clickType = "LONG" THEN [w EXCEPT !.L = m] ELSE [w EXCEPT !.SL = m]

\* wire values of the protocol
ProtocolClickType(clickType) == IF clickType = "LONG" THEN 1 ELSE 2

\* seeded fault: canPing comparing with >= instead of >
canPing_ge(w, t) == Elapsed(t, w.lastSent) >= PING_INTERVAL_MS

\* EspCom::canPing
canPing(w, t) == Elapsed(t, w.lastSent) > PING_INTERVAL_MS

\* seeded fault: isConnected without the firstValidPayloadReceived test
isConnected_noFirstValid(w, t) == Elapsed(t, w.lastRecv) < CONNECTION_TIMEOUT_MS

\* EspCom::isConnected
isConnected(w, t) ==
    w.firstValid /\ Elapsed(t, w.lastRecv) < CONNECTION_TIMEOUT_MS

\* EspCom::sendJson, with EspCom::updateLastSentTime
sendJson(w, msg, t) == [w EXCEPT !.out = Append(@, msg), !.lastSent = t]

\* Serializer::serializeStaticJson: raw write of the pre-encoded payload
serializeStaticJson(w, payloadType, t) ==
    IF payloadType = "PING" /\ ~canPing(w, t) THEN w
    ELSE [w EXCEPT !.out = Append(@, [p |-> IF payloadType = "BOOT" THEN 4 ELSE 5]),
                   !.lastSent = t]

\* seeded fault: serializeDetails that sends nothing
serializeDetails_dropped(w, C, t) == w

\* Serializer::serializeDetails
serializeDetails(w, C, t) ==
    sendJson(w, [p |-> 1,
                 a |-> [i \in 1 .. CONFIG_MAX_ACTUATORS |-> C.act[i].id],
                 b |-> [i \in 1 .. CONFIG_MAX_CLICKABLES |-> C.clk[i].id]], t)

\* Serializer::serializeActuatorsState
serializeActuatorsState(w, t) ==
    sendJson(w, [p |-> 2,
                 s |-> [i \in 1 .. CONFIG_MAX_ACTUATORS |->
                            IF w.A[i - 1].actualState THEN 1 ELSE 0]], t)

\* seeded fault: serializeNetworkClick that always sets the confirm flag
serializeNetworkClick_confirmAlways(w, C, clickableIndex, clickType, confirmFlag, t) ==
    IF clickType \notin {"LONG", "SUPER_LONG"} THEN w
    ELSE sendJson(w, [p |-> 3, t |-> ProtocolClickType(clickType),
                      i |-> C.clk[clickableIndex + 1].id, c |-> 1], t)

\* Serializer::serializeNetworkClick
serializeNetworkClick(w, C, clickableIndex, clickType, confirmFlag, t) ==
    IF clickType \notin {"LONG", "SUPER_LONG"} THEN w
    ELSE sendJson(w, [p |-> 3, t |-> ProtocolClickType(clickType),
                      i |-> C.clk[clickableIndex + 1].id,
                      c |-> IF confirmFlag THEN 1 ELSE 0], t)

----------------------------------------------------------------------------
(* NetworkClicks *)

\* seeded fault: storeNetworkClickTime that records nothing
storeNetworkClickTime_dropped(w, clickableIndex, clickType, t) == w

\* NetworkClicks::storeNetworkClickTime
storeNetworkClickTime(w, clickableIndex, clickType, t) ==
    IF clickType \notin {"LONG", "SUPER_LONG"} THEN w
    ELSE withMap(w, clickType, mapPut(mapOf(w, clickType), clickableIndex, t))

\* NetworkClicks::request
request(w, C, clickableIndex, clickType, t) ==
    storeNetworkClickTime(serializeNetworkClick(w, C, clickableIndex, clickType, FALSE, t),
                          clickableIndex, clickType, t)

\* seeded fault: thereAreActiveNetworkCLicks that looks at the long map only
thereAreActiveNetworkCLicks_longOnly(w) == DOMAIN w.L # {}

\* NetworkClicks::thereAreActiveNetworkCLicks
thereAreActiveNetworkCLicks(w) == (DOMAIN w.L # {}) \/ (DOMAIN w.SL # {})

\* seeded fault: eraseNetworkClick erasing the clickable from both maps
eraseNetworkClick_bothKinds(w, clickableIndex, clickType) ==
    IF clickType \notin {"LONG", "SUPER_LONG"} THEN w
    ELSE [w EXCEPT !.L = mapErase(@, clickableIndex), !.SL = mapErase(@, clickableIndex)]

\* NetworkClicks::eraseNetworkClick
eraseNetworkClick(w, clickableIndex, clickType) ==
    IF clickType \notin {"LONG", "SUPER_LONG"} THEN w
    ELSE withMap(w, clickType, mapErase(mapOf(w, clickType), clickableIndex))

\* a NetworkClicks result: the state left behind and the returned bool
NetRes(w, ret) == [w |-> w, ret |-> ret]

\* the result of the part of a loop already run, ORed into the result of the rest
orRet(ret, r) == [w |-> r.w, ret |-> ret \/ r.ret]

\* "return thereAreActiveNetworkCLicks();" at the end of confirm
confirmReturn(w) == NetRes(w, thereAreActiveNetworkCLicks(w))

\* seeded fault: confirm that leaves the entry in the map
confirm_noErase(w, C, clickableIndex, clickType, t) ==
    confirmReturn(serializeNetworkClick(w, C, clickableIndex, clickType, TRUE, t))

\* NetworkClicks::confirm
confirm(w, C, clickableIndex, clickType, t) ==
    confirmReturn(eraseNetworkClick(
                      serializeNetworkClick(w, C, clickableIndex, clickType, TRUE, t),
                      clickableIndex, clickType))

\* seeded fault: isNetworkClickExpired that never looks at the age of the entry
isNetworkClickExpired_noTimeout(w, clickableIndex, clickType, t) ==
    IF clickType \notin {"LONG", "SUPER_LONG"} THEN [w |-> w, ret |-> TRUE]
    ELSE [w |-> w, ret |-> clickableIndex \notin DOMAIN mapOf(w, clickType)]

\* NetworkClicks::isNetworkClickExpired (erases an expired entry as a side effect)
isNetworkClickExpired(w, clickableIndex, clickType, t) ==
    IF clickType \notin {"LONG", "SUPER_LONG"} THEN [w |-> w, ret |-> TRUE]
    ELSE LET m == mapOf(w, clickType)
         IN IF clickableIndex \notin DOMAIN m THEN [w |-> w, ret |-> TRUE]
            ELSE IF Elapsed(t, m[clickableIndex]) > LCNB_TIMEOUT_MS
                 THEN [w |-> withMap(w, clickType, mapErase(m, clickableIndex)),
                       ret |-> TRUE]
                 ELSE [w |-> w, ret |-> FALSE]

\* the end of the body run for one pending entry that is expired or forced:
\* r is the result of the fallback click (a no-op unless doIt), then the erase
fallbackDone(w, r, doIt, clickableIndex, clickType) ==
    NetRes(eraseNetworkClick(
               [w EXCEPT !.A = r.A,
                         !.acts = IF doIt
                                  THEN Append(@, [i |-> clickableIndex, type |-> clickType,
                                                  via |-> "fallback"])
                                  ELSE @],
               clickableIndex, clickType),
           r.changed)

\* the body run for one pending entry that is expired or forced: the fallback
\* click (if configured), then the erase
fallbackAndErase(w, C, clickableIndex, clickType, t) ==
    fallbackDone(w,
                 IF getNetworkFallback(C.clk[clickableIndex + 1], clickType) = "LOCAL_FALLBACK"
                 THEN click(w.A, C, C.clk[clickableIndex + 1], clickType, t)
                 ELSE ActRes(w.A, FALSE),
                 getNetworkFallback(C.clk[clickableIndex + 1], clickType) = "LOCAL_FALLBACK",
                 clickableIndex, clickType)

\* seeded fault: the failover flag ignored, only the age of the entry counts
mustSettle_onlyExpired(w, clickableIndex, clickType, failover, t) ==
    /\ clickableIndex \in DOMAIN mapOf(w, clickType)
    /\ Elapsed(t, mapOf(w, clickType)[clickableIndex]) > LCNB_TIMEOUT_MS

\* the test made on one pending entry: present, and forced or older than the timeout
mustSettle(w, clickableIndex, clickType, failover, t) ==
    /\ clickableIndex \in DOMAIN mapOf(w, clickType)
    /\ (failover \/ Elapsed(t, mapOf(w, clickType)[clickableIndex]) > LCNB_TIMEOUT_MS)

\* NetworkClicks::checkNetworkClickTimer
checkNetworkClickTimer(w, C, clickableIndex, clickType, failover, t) ==
    IF clickType \notin {"LONG", "SUPER_LONG"} THEN NetRes(w, FALSE)
    ELSE IF mustSettle(w, clickableIndex, clickType, failover, t)
         THEN fallbackAndErase(w, C, clickableIndex, clickType, t)
         ELSE NetRes(w, FALSE)

\* NetworkClicks::checkAllNetworkClicksTimers(map, clickType, failover): the
\* iteration over one map, in key order, from key i; checkMapRest continues
\* after the entry of key i gave r
RECURSIVE checkMapLoop(_, _, _, _, _, _)
checkMapRest(r, C, i, clickType, failover, t) ==
    orRet(r.ret, checkMapLoop(r.w, C, i + 1, clickType, failover, t))

checkMapLoop(w, C, i, clickType, failover, t) ==
    IF i >= CONFIG_MAX_CLICKABLES THEN NetRes(w, FALSE)
    ELSE checkMapRest(IF mustSettle(w, i, clickType, failover, t)
                      THEN fallbackAndErase(w, C, i, clickType, t)
                      ELSE NetRes(w, FALSE),
                      C, i, clickType, failover, t)

\* the two halves of checkAllNetworkClicksTimers(failover): the long map, then
\* the super-long map on what the first half (r1) left
checkLongMap(w, C, failover, t) ==
    IF DOMAIN w.L # {}
    THEN checkMapLoop(w, C, 0, "LONG", failover, t)
    ELSE NetRes(w, FALSE)

checkSuperLongMap(r1, C, failover, t) ==
    orRet(r1.ret,
          IF DOMAIN r1.w.SL # {}
          THEN checkMapLoop(r1.w, C, 0, "SUPER_LONG", failover, t)
          ELSE NetRes(r1.w, FALSE))

\* seeded fault: checkAllNetworkClicksTimers that forgets the super-long map
checkAllNetworkClicksTimers_longOnly(w, C, failover, t) ==
    IF DOMAIN w.L # {}
    THEN checkMapLoop(w, C, 0, "LONG", failover, t)
    ELSE [w |-> w, ret |-> FALSE]

\* NetworkClicks::checkAllNetworkClicksTimers(failover)
checkAllNetworkClicksTimers(w, C, failover, t) ==
    checkSuperLongMap(checkLongMap(w, C, failover, t), C, failover, t)


----------------------------------------------------------------------------
(* Deserializer.  A decoded record d has the four filtered keys p, i, t, s;
   a missing numeric key reads as 0.  The value of "s" is kept with its JSON
   kind: [kind |-> "null"], [kind |-> "int", v |-> n] or
   [kind |-> "array", v |-> <<n, ...>>]. *)

NullS == [kind |-> "null", v |-> <<>>]
IntS(n) == [kind |-> "int", v |-> <<n>>]
ArrayS(a) == [kind |-> "array", v |-> a]

DefaultResult == [stateChanged |-> FALSE, networkClickHandled |-> FALSE]

\* Actuators::actuatorExists / Actuators::getIndex over actuatorsMap
actuatorExists(C, id) == \E i \in 1 .. CONFIG_MAX_ACTUATORS : C.act[i].id = id
actuatorIndex(C, id) == (CHOOSE i \in 1 .. CONFIG_MAX_ACTUATORS : C.act[i].id = id) - 1

\* Clickables::clickableExists / Clickables::getIndex over clickablesMap
clickableExists(C, id) == \E i \in 1 .. CONFIG_MAX_CLICKABLES : C.clk[i].id = id
clickableIndex(C, id) == (CHOOSE i \in 1 .. CONFIG_MAX_CLICKABLES : C.clk[i].id = id) - 1

\* DispatchResult of FAILOVER / FAILOVER_CLICK: stateChanged = the returned bool
failoverResult(r) ==
    [w |-> r.w, result |-> [stateChanged |-> r.ret, networkClickHandled |-> FALSE]]

\* DispatchResult of a confirmed NETWORK_CLICK_ACK: both flags = what confirm returned
confirmResult(r) ==
    [w |-> r.w, result |-> [stateChanged |-> r.ret, networkClickHandled |-> r.ret]]

\* the NETWORK_CLICK_ACK branch, e being what isNetworkClickExpired gave
ackBranch(e, C, idx, clickType, t) ==
    IF ~e.ret
    THEN confirmResult(confirm(e.w, C, idx, clickType, t))
    ELSE [w |-> e.w, result |-> DefaultResult]

\* seeded fault: a click type other than 1 taken as SUPER_LONG
processNetworkClickResponse_anyKind(w, C, d, t) ==
    IF ~clickableExists(C, d.i) THEN [w |-> w, result |-> DefaultResult]
    ELSE IF d.p = 16
         THEN failoverResult(
                  checkNetworkClickTimer(w, C, clickableIndex(C, d.i),
                                         IF d.t = 1 THEN "LONG" ELSE "SUPER_LONG", TRUE, t))
         ELSE ackBranch(
                  isNetworkClickExpired(w, clickableIndex(C, d.i),
                                        IF d.t = 1 THEN "LONG" ELSE "SUPER_LONG", t),
                  C, clickableIndex(C, d.i), IF d.t = 1 THEN "LONG" ELSE "SUPER_LONG", t)

\* Deserializer::processNetworkClickResponse
processNetworkClickResponse(w, C, d, t) ==
    IF ~clickableExists(C, d.i) THEN [w |-> w, result |-> DefaultResult]
    ELSE IF d.t \notin {1, 2} THEN [w |-> w, result |-> DefaultResult]
    ELSE IF d.p = 16
         THEN failoverResult(
                  checkNetworkClickTimer(w, C, clickableIndex(C, d.i),
                                         IF d.t = 1 THEN "LONG" ELSE "SUPER_LONG", TRUE, t))
         ELSE ackBranch(
                  isNetworkClickExpired(w, clickableIndex(C, d.i),
                                        IF d.t = 1 THEN "LONG" ELSE "SUPER_LONG", t),
                  C, clickableIndex(C, d.i), IF d.t = 1 THEN "LONG" ELSE "SUPER_LONG", t)

\* seeded fault: the SET_STATE loop stopping at the first refused switch
RECURSIVE setAllLoop_stopAtRefusal(_, _, _, _)
setAllLoop_stopAtRefusal(A, i, statesArray, t) ==
    IF i >= CONFIG_MAX_ACTUATORS THEN ActRes(A, FALSE)
    ELSE LET r == setState(A[i], statesArray[i + 1] = 1, t)
             rest == setAllLoop_stopAtRefusal([A EXCEPT ![i] = r.a], i + 1, statesArray, t)
         IN IF ~r.changed /\ A[i].actualState # (statesArray[i + 1] = 1)
            THEN ActRes(A, FALSE)
            ELSE ActRes(rest.A, r.changed \/ rest.changed)

\* the SET_STATE loop: setState(statesArray[i] == 1) on every actuator
RECURSIVE setAllLoop(_, _, _, _)
setAllLoop(A, i, statesArray, t) ==
    IF i >= CONFIG_MAX_ACTUATORS THEN ActRes(A, FALSE)
    ELSE LET r == setState(A[i], statesArray[i + 1] = 1, t)
             rest == setAllLoop([A EXCEPT ![i] = r.a], i + 1, statesArray, t)
         IN ActRes(rest.A, r.changed \/ rest.changed)

\* Deserializer::deserializeAndDispatch
deserializeAndDispatch(w, C, d, t) ==
    CASE d.p = 13 ->
            IF ~actuatorExists(C, d.i) THEN [w |-> w, result |-> DefaultResult]
            ELSE IF d.s.kind # "int" THEN [w |-> w, result |-> DefaultResult]
            ELSE LET idx == actuatorIndex(C, d.i)
                     r == setState(w.A[idx], d.s.v[1] = 1, t)
                 IN [w |-> [w EXCEPT !.A[idx] = r.a],
                     result |-> [stateChanged |-> r.changed, networkClickHandled |-> FALSE]]
      [] d.p = 12 ->
            IF d.s.kind # "array" \/ Len(d.s.v) # CONFIG_MAX_ACTUATORS
            THEN [w |-> w, result |-> DefaultResult]
            ELSE LET r == setAllLoop(w.A, 0, d.s.v, t)
                 IN [w |-> [w EXCEPT !.A = r.A],
                     result |-> [stateChanged |-> r.changed, networkClickHandled |-> FALSE]]
      [] d.p \in {14, 16} -> processNetworkClickResponse(w, C, d, t)
      [] d.p = 15 -> failoverResult(checkAllNetworkClicksTimers(w, C, TRUE, t))
      [] d.p = 11 -> [w |-> serializeActuatorsState(w, t), result |-> DefaultResult]
      [] d.p = 10 -> [w |-> serializeDetails(w, C, t), result |-> DefaultResult]
      [] d.p = 4 -> [w |-> serializeActuatorsState(serializeDetails(w, C, t), t),
                     result |-> DefaultResult]
      [] d.p = 5 -> [w |-> w, result |-> DefaultResult]
      [] OTHER -> [w |-> w, result |-> DefaultResult]

\* seeded fault: a frame that fails to decode refreshing the receive time
receiveAndDispatch_refreshOnError(w, C, f, t) ==
    IF f.ok
    THEN deserializeAndDispatch([w EXCEPT !.firstValid = TRUE, !.lastRecv = t], C, f, t)
    ELSE [w |-> [w EXCEPT !.lastRecv = t], result |-> DefaultResult]

\* EspCom::receiveAndDispatch on one complete inbound frame f; f.ok tells whether
\* the frame decodes (DeserializationError::Ok)
receiveAndDispatch(w, C, f, t) ==
    IF f.ok
    THEN deserializeAndDispatch([w EXCEPT !.firstValid = TRUE, !.lastRecv = t], C, f, t)
    ELSE [w |-> w, result |-> DefaultResult]


----------------------------------------------------------------------------
(* Indicator *)

NewIndicator == [actualState |-> FALSE, hw |-> FALSE]

\* seeded fault: MAJORITY switching on at exactly half
indicatorValue_tieOn(A, ic) ==
    CASE ic.mode = "ANY" ->
            \E k \in 1 .. Len(ic.controlledActuators) : A[ic.controlledActuators[k]].actualState
      [] ic.mode = "ALL" ->
            \A k \in 1 .. Len(ic.controlledActuators) : A[ic.controlledActuators[k]].actualState
      [] ic.mode = "MAJORITY" ->
            (CountOn(A, ic.controlledActuators) * 2) >= Len(ic.controlledActuators)

\* the mode function evaluated by Indicator::check
indicatorValue(A, ic) ==
    CASE ic.mode = "ANY" ->
            \E k \in 1 .. Len(ic.controlledActuators) : A[ic.controlledActuators[k]].actualState
      [] ic.mode = "ALL" ->
            \A k \in 1 .. Len(ic.controlledActuators) : A[ic.controlledActuators[k]].actualState
      [] ic.mode = "MAJORITY" ->
            (CountOn(A, ic.controlledActuators) * 2) > Len(ic.controlledActuators)

\* Indicator::check, its last lines: the pin is written unless the new state
\* is the cached one
indicatorWrites(ind, newState) == newState # ind.actualState

\* Indicator::check: write the pin only when the value changed
indicatorCheck(ind, A, ic) ==
    IF ic.mode \notin {"ANY", "ALL", "MAJORITY"} THEN ind
    ELSE LET newState == indicatorValue(A, ic)
         IN IF ~indicatorWrites(ind, newState) THEN ind
            ELSE [actualState |-> newState, hw |-> newState]

\* seeded fault: the broadcast leaving the indicators as they are
indicatorsCheck_skipped(I, A, C) == I

\* Indicators::indicatorsCheck
indicatorsCheck(I, A, C) == [i \in IndIdx |-> indicatorCheck(I[i], A, C.ind[i + 1])]

----------------------------------------------------------------------------
(* Configuration: what Configurator::configure() registers, through the
   chained setters of the user configuration *)

\* Clickable(pin, uniqueId) with the default member initializers
ClickableCfg(id) ==
    [id |-> id, isShortClickable |-> TRUE, isLongClickable |-> FALSE,
     isSuperLongClickable |-> FALSE, isNetworkLongClickable |-> FALSE,
     isNetworkSuperLongClickable |-> FALSE, isQuickClickable |-> FALSE,
     isValid |-> FALSE, isChecked |-> FALSE,
     longClickType |-> "NONE", longClickFallback |-> "NONE",
     superLongClickType |-> "NONE", superLongClickFallback |-> "NONE",
     actuatorsShort |-> <<>>, actuatorsLong |-> <<>>, actuatorsSuperLong |-> <<>>]

setClickableShort(c, shortClickable) == [c EXCEPT !.isShortClickable = shortClickable]

setClickableLong(c, longClickable, clickType, networkClickable, fallback) ==
    [c EXCEPT !.isLongClickable = longClickable, !.longClickType = clickType,
              !.isNetworkLongClickable = networkClickable, !.longClickFallback = fallback]

setClickableSuperLong(c, superLongClickable, clickType, networkClickable, fallback) ==
    [c EXCEPT !.isSuperLongClickable = superLongClickable, !.superLongClickType = clickType,
              !.isNetworkSuperLongClickable = networkClickable,
              !.superLongClickFallback = fallback]

\* Clickable::addActuator for the three lists
addActuators(c, short, long, superLong) ==
    [c EXCEPT !.actuatorsShort = short, !.actuatorsLong = long,
              !.actuatorsSuperLong = superLong]

\* Actuator(pin, uniqueId, normalState).setAutoOffTimer(time_ms).setProtected(p)
ActuatorCfg(id, normalState, time_ms, hasProtection) ==
    [id |-> id, defaultState |-> normalState, autoOffTimer_ms |-> time_ms,
     isProtected |-> hasProtection]

\* Indicator(pin).addActuator(...).setMode(mode)
IndicatorCfg(list, mode) == [controlledActuators |-> list, mode |-> mode]

\* the button of the modelled devices as configure() builds it: short on
\* actuator 0, long and super-long on both
ButtonCfg(longType, longNet, longFb, superType, superNet, superFb) ==
    addActuators(
        setClickableSuperLong(
          setClickableLong(ClickableCfg(1), TRUE, longType, longNet, longFb),
          TRUE, superType, superNet, superFb),
        <<0>>, <<0, 1>>, <<0, 1>>)

\* the same button once Clickables::finalizeSetup has run check() on it
Button(longType, longNet, longFb, superType, superNet, superFb) ==
    check(ButtonCfg(longType, longNet, longFb, superType, superNet, superFb))

Device(autoOff0, button) ==
    [act |-> <<ActuatorCfg(1, FALSE, autoOff0, FALSE), ActuatorCfg(2, FALSE, 0, TRUE)>>,
     clk |-> <<button>>,
     ind |-> <<IndicatorCfg(<<0, 1>>, "MAJORITY")>>]

\* the devices explored by the loop specification
Configs ==
    { Device(3, Button("NORMAL", TRUE, "LOCAL_FALLBACK", "NORMAL", TRUE, "DO_NOTHING")),
      Device(1, Button("ON_ONLY", TRUE, "DO_NOTHING", "SELECTIVE", TRUE, "LOCAL_FALLBACK")),
      Device(0, Button("OFF_ONLY", FALSE, "NONE", "NORMAL", FALSE, "NONE")) }

\* the inbound frames the bridge may deliver
BadFrame == [ok |-> FALSE, p |-> 0, i |-> 0, t |-> 0, s |-> NullS]
Frame(p, i, t, s) == [ok |-> TRUE, p |-> p, i |-> i, t |-> t, s |-> s]
Frames ==
    {BadFrame}
    \cup {Frame(p, 0, 0, NullS) : p \in {4, 5, 10, 11, 15}}
    \cup {Frame(12, 0, 0, ArrayS(v)) : v \in {<<0, 0>>, <<1, 1>>, <<1>>}}
    \cup {Frame(13, 1, 0, sv) : sv \in {IntS(0), IntS(1)}}
    \cup {Frame(14, 1, t, NullS) : t \in {1, 2}}
    \cup {Frame(16, 1, t, NullS) : t \in {1, 2}}
    \cup {Frame(9, 0, 0, NullS), Frame(13, 9, 0, IntS(1)), Frame(14, 1, 3, NullS)}

----------------------------------------------------------------------------
(* Registries (Actuators / Clickables / Indicators namespaces).  The arrays
   themselves are the variables actuators, clickables and indicators, with the
   static part of each object in cfg; a registry record holds the counters and
   the id -> index maps, program being the sequence of add calls the user's
   configure() makes and todo what is left of it, maxClickables the
   CONFIG_MAX_CLICKABLES of the build the program is compiled for.  The slots
   of an array that no add call has set hold null pointers: they are the
   indexes from the counter up to the capacity. *)

NewRegistry(program, maxClickables) ==
    [program |-> program, todo |-> program, maxClickables |-> maxClickables,
     totalActuators |-> 0, actuatorsMap |-> EmptyMap,
     actuatorsWithAutoOffIndexes |-> <<>>,
     totalClickables |-> 0, clickablesMap |-> EmptyMap,
     totalIndicators |-> 0]

\* seeded fault: the capacity test of addActuator comparing with > instead of >=
actuatorsFull_gt(reg) == reg.totalActuators > CONFIG_MAX_ACTUATORS
actuatorsFull(reg) == reg.totalActuators >= CONFIG_MAX_ACTUATORS
clickablesFull(reg) == reg.totalClickables >= reg.maxClickables
indicatorsFull(reg) == reg.totalIndicators >= CONFIG_MAX_INDICATORS

\* Actuators::addActuator past the capacity test: id -> index, then the counter
addActuator(reg, c) ==
    [reg EXCEPT !.actuatorsMap = mapPut(@, c.id, reg.totalActuators),
                !.totalActuators = @ + 1, !.todo = Tail(@)]

\* Clickables::addClickable past the capacity test
addClickable(reg, c) ==
    [reg EXCEPT !.clickablesMap = mapPut(@, c.id, reg.totalClickables),
                !.totalClickables = @ + 1, !.todo = Tail(@)]

\* Indicators::addIndicator past the capacity test
addIndicator(reg) == [reg EXCEPT !.totalIndicators = @ + 1, !.todo = Tail(@)]

\* the slots of an array that no add call has set
UnsetSlots(total, capacity) == total .. (capacity - 1)

\* the slots a range-based for over a whole array goes through
Visits(kind, capacity) == {[kind |-> kind, slot |-> s] : s \in 0 .. (capacity - 1)}

\* the loop of Actuators::finalizeSetup: hasAutoOff() on every slot of the
\* array; nullRead[i] is what the read through the null pointer of the unset
\* slot i gives
RECURSIVE autoOffIndexLoop(_, _, _)
autoOffIndexLoop(C, nullRead, i) ==
    IF i >= CONFIG_MAX_ACTUATORS THEN <<>>
    ELSE (IF (IF i < Len(C.act) THEN C.act[i + 1].autoOffTimer_ms # 0 ELSE nullRead[i])
          THEN <<i>> ELSE <<>>)
         \o autoOffIndexLoop(C, nullRead, i + 1)

\* the duplicate-id tests of Actuators::finalizeSetup and Clickables::finalizeSetup
actuatorsMapComplete(reg) == Cardinality(DOMAIN reg.actuatorsMap) = reg.totalActuators
clickablesMapComplete(reg) == Cardinality(DOMAIN reg.clickablesMap) = reg.totalClickables

\* the add calls of a configure() that registers the device C
ProgramOf(C) ==
    [i \in 1 .. Len(C.act) |-> [kind |-> "actuator", c |-> C.act[i]]]
    \o [i \in 1 .. Len(C.clk) |-> [kind |-> "clickable", c |-> C.clk[i]]]
    \o [i \in 1 .. Len(C.ind) |-> [kind |-> "indicator", c |-> C.ind[i]]]

\* the registries once setup() has registered and finalized the device C
RegistryOf(C) ==
    [program |-> ProgramOf(C), todo |-> <<>>, maxClickables |-> CONFIG_MAX_CLICKABLES,
     totalActuators |-> Len(C.act),
     actuatorsMap |-> [id \in {C.act[i].id : i \in 1 .. Len(C.act)} |-> actuatorIndex(C, id)],
     actuatorsWithAutoOffIndexes |-> AutoOffIndexes(C, 0),
     totalClickables |-> Len(C.clk),
     clickablesMap |-> [id \in {C.clk[i].id : i \in 1 .. Len(C.clk)} |-> clickableIndex(C, id)],
     totalIndicators |-> Len(C.ind)]

----------------------------------------------------------------------------
(* Observation bookkeeping (not program state):
     changedSince   some actuator switched since the last gated broadcast
     lastValidRx    time the last frame decoded successfully, -1 if none
     lastSwitch     per actuator, time of its last applied switch, -1 if none
     gatedTx        the gated state broadcast was emitted in this iteration
     ackAge         age of the pending entry met by the NETWORK_CLICK_ACK just
                    processed, -1 if there was none
     prevRx         the frame received before the last one in the same pass of
                    the receive loop, <<>> if none
     held, fired    kept by the single-clickable specification: how long the
                    current (or last) press was sampled pressed since it entered
                    PRESSED, -1 before the first press, and the click events
                    emitted in that press, in order
     overflowed, chars, decoded   kept by the text-framing specification: the
                    line being received has outgrown the buffer; the number of
                    characters received and of lines decoded so far
     visited        the array slots the last finalize or dispatch went
                    through, as records [kind, slot] *)

\* the last direct call and its inputs
Call(op, kind, list, useMsgPack) ==
    [op |-> op, kind |-> kind, list |-> list, useMsgPack |-> useMsgPack]
NoCall == Call("none", "", <<>>, FALSE)

ObsInit == [changedSince |-> FALSE, lastValidRx |-> -1,
            lastSwitch |-> [i \in ActIdx |-> -1],
            gatedTx |-> FALSE, ackAge |-> -1, prevRx |-> <<>>,
            held |-> -1, fired |-> <<>>,
            overflowed |-> FALSE, chars |-> 0, decoded |-> 0,
            stamp |-> 0, elapsed |-> 0, call |-> NoCall, written |-> <<>>,
            pinWritten |-> FALSE, visited |-> {}]

\* the results of clickDetection() that are click events
ClickEvents == {"SHORT_CLICK", "SHORT_CLICK_QUICK", "LONG_CLICK", "SUPER_LONG_CLICK"}

\* bookkeeping of one poll of a clickable: k, k2 its FSM fields before and
\* after, res the result, isPressed the sample, t the time of the poll
ObsPress(o, k, k2, res, isPressed, t) ==
    IF k.currentState = "DEBOUNCING" /\ k2.currentState = "PRESSED"
    THEN [o EXCEPT !.held = 0, !.fired = IF res \in ClickEvents THEN <<res>> ELSE <<>>]
    ELSE IF k.currentState = "PRESSED"
         THEN [o EXCEPT !.held = IF isPressed THEN t - k.stateChangeTime ELSE @,
                        !.fired = IF res \in ClickEvents THEN Append(@, res) ELSE @]
         ELSE o

\* the pending map of one wire click type (1 = long, 2 = super-long)
PendingOfWire(t) ==
    IF t = 1 THEN longClickedNetworkClickables ELSE superLongClickedNetworkClickables

\* the age of the pending entry addressed by frame f, -1 if f is no
\* NETWORK_CLICK_ACK of a pending network click
AckAgeOf(f, C, t) ==
    IF f.ok /\ f.p = 14 /\ f.t \in {1, 2}
       /\ (\E k \in 1 .. CONFIG_MAX_CLICKABLES : C.clk[k].id = f.i)
    THEN LET k == CHOOSE k \in 1 .. CONFIG_MAX_CLICKABLES : C.clk[k].id = f.i
             m == PendingOfWire(f.t)
         IN IF (k - 1) \in DOMAIN m THEN t - m[k - 1] ELSE -1
    ELSE -1

ObsRx(o, f, C, t) ==
    [o EXCEPT !.lastValidRx = IF f.ok THEN t ELSE @, !.ackAge = AckAgeOf(f, C, t),
              !.prevRx = doc]

Switched(A, A2, i) == A[i].actualState # A2[i].actualState

ObsActs(o, A, A2, t) ==
    [o EXCEPT !.changedSince = @ \/ (\E i \in DOMAIN A : Switched(A, A2, i)),
              !.lastSwitch = [i \in ActIdx |->
                                 IF i \in DOMAIN A /\ Switched(A, A2, i) THEN t ELSE @[i]]]

\* the reference click machine: its state after construction
RefInit == [state |-> "IDLE", t0 |-> 0, last |-> "NONE", emit |-> "NO_CLICK"]

\* the RELEASED row of the transition table: what is emitted on the way to IDLE
RefReleasedEmit(r, short_ok, quick_ok) ==
    IF quick_ok THEN "NO_CLICK"
    ELSE IF r.last = "NONE"
         THEN (IF short_ok THEN "SHORT_CLICK" ELSE "NO_CLICK_NOT_SHORT_CLICKABLE")
         ELSE "NO_CLICK"

\* one poll of the reference click machine, row by row of the transition table;
\* level is the sampled input, t the time of the poll, caps the capability bits
RefStep(r, caps, level, t) ==
    LET quick_ok == caps.short_ok /\ ~caps.long_ok /\ ~caps.super_long_ok
        lastRank == CASE r.last = "NONE" -> 0 [] r.last = "LONG" -> 1
                      [] r.last = "SUPER_LONG" -> 2
        held == t - r.t0
        superRow == level /\ caps.super_long_ok /\ lastRank < 2
                    /\ held >= CLICKABLE_SUPER_LONG_CLICK_TIME_MS
        longRow == level /\ caps.long_ok /\ lastRank < 1
                   /\ held >= CLICKABLE_LONG_CLICK_TIME_MS
    IN CASE r.state = "IDLE" /\ level ->
              [r EXCEPT !.state = "DEBOUNCING", !.t0 = t, !.emit = "NO_CLICK"]
         [] r.state = "IDLE" /\ ~level ->
              [r EXCEPT !.emit = "NO_CLICK"]
         [] r.state = "DEBOUNCING" /\ held < CLICKABLE_DEBOUNCE_TIME_MS ->
              [r EXCEPT !.emit = "NO_CLICK"]
         [] r.state = "DEBOUNCING" /\ held >= CLICKABLE_DEBOUNCE_TIME_MS /\ level ->
              [state |-> "PRESSED", t0 |-> t, last |-> "NONE",
               emit |-> IF quick_ok THEN "SHORT_CLICK_QUICK" ELSE "NO_CLICK"]
         [] r.state = "DEBOUNCING" /\ held >= CLICKABLE_DEBOUNCE_TIME_MS /\ ~level ->
              [r EXCEPT !.state = "IDLE", !.emit = "NO_CLICK"]
         [] r.state = "PRESSED" /\ superRow ->
              [r EXCEPT !.last = "SUPER_LONG", !.emit = "SUPER_LONG_CLICK"]
         [] r.state = "PRESSED" /\ ~superRow /\ longRow ->
              [r EXCEPT !.last = "LONG", !.emit = "LONG_CLICK"]
         [] r.state = "PRESSED" /\ level /\ ~superRow /\ ~longRow ->
              [r EXCEPT !.emit = "NO_CLICK_KEEPING_CLICKED"]
         [] r.state = "PRESSED" /\ ~level ->
              [r EXCEPT !.state = "IDLE", !.emit = RefReleasedEmit(r, caps.short_ok, quick_ok)]
         [] r.state = "RELEASED" ->
              [r EXCEPT !.state = "IDLE", !.emit = RefReleasedEmit(r, caps.short_ok, quick_ok)]

----------------------------------------------------------------------------
(* LSH::setup and LSH::loop *)

\* the state after LSH::setup(): everything constructed and finalized, BOOT sent
InitWith(C) ==
    /\ now = 0
    /\ cfg = C
    /\ actuators = [i \in ActIdx |-> NewActuator(C.act[i + 1])]
    /\ clickables = [i \in ClkIdx |-> NewClickable]
    /\ indicators = [i \in IndIdx |-> NewIndicator]
    /\ longClickedNetworkClickables = EmptyMap
    /\ superLongClickedNetworkClickables = EmptyMap
    /\ lastSentPayloadTime_ms = 0
    /\ lastReceivedPayloadTime_ms = 0
    /\ firstValidPayloadReceived = FALSE
    /\ mustSendState = FALSE
    /\ mustCheckNetworkClicks = FALSE
    /\ lastClickablesCheck_ms = 0
    /\ lastNetworkClickCheckTime_ms = 0
    /\ lastAutoOffCheckTime_ms = 0
    /\ pc = "start"
    /\ pollIdx = 0
    /\ clickResult = "NO_CLICK"
    /\ doc = <<>>
    /\ dispatchResult = DefaultResult
    /\ out = <<[p |-> 4]>>
    /\ acts = <<>>
    /\ obs = ObsInit
    /\ rxCount = 0
    /\ ref = RefInit
    /\ setup = RegistryOf(C)
    /\ inputBuffer = <<>>

Init == (\E C \in Configs : InitWith(C)) /\ runs = <<>>

\* write a World record back to the variables it was read from
Commit(w, t, o) ==
    /\ actuators' = w.A
    /\ longClickedNetworkClickables' = w.L
    /\ superLongClickedNetworkClickables' = w.SL
    /\ lastSentPayloadTime_ms' = w.lastSent
    /\ lastReceivedPayloadTime_ms' = w.lastRecv
    /\ firstValidPayloadReceived' = w.firstValid
    /\ out' = w.out
    /\ acts' = w.acts
    /\ obs' = ObsActs(o, actuators, w.A, t)

\* what one pass of the for-loop body leaves: the state, and what it ORs into
\* mustSendState and mustCheckNetworkClicks
ClickOutcome(w, sendState, checkNet) == [w |-> w, sendState |-> sendState, checkNet |-> checkNet]

\* "mustSendState |= click(...)": r is the result of the local click action
localClickDone(w, r, idx, clickType) ==
    ClickOutcome([w EXCEPT !.A = r.A,
                           !.acts = Append(@, [i |-> idx, type |-> clickType, via |-> "local"])],
                 r.changed, FALSE)

\* a local click action run by the loop, with its entry in the observation log
localClick(w, C, idx, clickType, t) ==
    localClickDone(w, click(w.A, C, C.clk[idx + 1], clickType, t), idx, clickType)

\* seeded fault: the local action of a click that is not network-enabled run
\* only while the link is down
networkOrLocalClick_needsOffline(w, C, idx, clickType, t) ==
    IF isConnected(w, t) THEN ClickOutcome(w, FALSE, FALSE)
    ELSE localClick(w, C, idx, clickType, t)

\* the LONG_CLICK / SUPER_LONG_CLICK cases of the switch
networkOrLocalClick(w, C, idx, clickType, t) ==
    IF isNetworkClickable(C.clk[idx + 1], clickType)
    THEN IF isConnected(w, t)
         THEN ClickOutcome(request(w, C, idx, clickType, t), FALSE, TRUE)
         ELSE IF getNetworkFallback(C.clk[idx + 1], clickType) = "LOCAL_FALLBACK"
              THEN localClick(w, C, idx, clickType, t)
              ELSE ClickOutcome(w, FALSE, FALSE)
    ELSE localClick(w, C, idx, clickType, t)

\* the switch on the result of clickDetection() in the clickables for-loop
dispatchClick(w, C, idx, res, t) ==
    IF res \in {"SHORT_CLICK", "SHORT_CLICK_QUICK", "LONG_CLICK", "SUPER_LONG_CLICK"}
    THEN IF res \in {"LONG_CLICK", "SUPER_LONG_CLICK"}
         THEN networkOrLocalClick(w, C, idx,
                                  IF res = "LONG_CLICK" THEN "LONG" ELSE "SUPER_LONG", t)
         ELSE localClick(w, C, idx, "SHORT", t)
    ELSE ClickOutcome(w, FALSE, FALSE)

\* loop(): timeKeeper::update(), then the "if (now - lastClickablesCheck_ms)" head:
\* the PING attempt and the start of the clickables for-loop
LoopStart ==
    /\ pc = "start"
    /\ \E dt \in 0 .. MaxDt :
          /\ now + dt <= MaxTime
          /\ now' = now + dt
          /\ LET poll == Elapsed(now', lastClickablesCheck_ms) # 0
                 w0 == [World EXCEPT !.out = <<>>, !.acts = <<>>]
                 w1 == IF poll THEN serializeStaticJson(w0, "PING", now') ELSE w0
             IN /\ Commit(w1, now + dt, [obs EXCEPT !.gatedTx = FALSE])
                /\ lastClickablesCheck_ms' = IF poll THEN now' ELSE lastClickablesCheck_ms
                /\ pc' = IF poll /\ CONFIG_MAX_CLICKABLES > 0 THEN "click" ELSE "drain"
    /\ pollIdx' = 0
    /\ UNCHANGED <<cfg, setup, inputBuffer, runs, clickables, indicators, mustSendState, mustCheckNetworkClicks,
                   lastNetworkClickCheckTime_ms, lastAutoOffCheckTime_ms,
                   clickResult, doc, dispatchResult, rxCount, ref>>

\* one pass of the clickables for-loop body, for clickable pollIdx
ClickStep ==
    /\ pc = "click"
    /\ \E isPressed \in BOOLEAN :
          \E r \in {clickDetection(clickables[pollIdx], cfg.clk[pollIdx + 1], isPressed, now)} :
          \E d \in {dispatchClick(World, cfg, pollIdx, r.res, now)} :
             /\ clickables' = [clickables EXCEPT ![pollIdx] = r.k]
             /\ clickResult' = r.res
             /\ Commit(d.w, now, obs)
             /\ mustSendState' = (mustSendState \/ d.sendState)
             /\ mustCheckNetworkClicks' = (mustCheckNetworkClicks \/ d.checkNet)
    /\ pollIdx' = pollIdx + 1
    /\ pc' = IF pollIdx + 1 < CONFIG_MAX_CLICKABLES THEN "click" ELSE "drain"
    /\ UNCHANGED <<now, cfg, setup, inputBuffer, runs, indicators, lastClickablesCheck_ms,
                   lastNetworkClickCheckTime_ms, lastAutoOffCheckTime_ms,
                   doc, dispatchResult, rxCount, ref>>

\* one pass of "while (CONFIG_COM_SERIAL->available())": the serial buffer holds a
\* complete frame f, receiveAndDispatch() consumes it
ReceiveFrom(frames) ==
    /\ pc = "drain"
    /\ rxCount < MaxFrames
    /\ rxCount' = rxCount + 1
    /\ \E f \in frames :
          \E r \in {receiveAndDispatch(World, cfg, f, now)} :
             /\ Commit(r.w, now, ObsRx(obs, f, cfg, now))
             /\ doc' = <<f>>
             /\ dispatchResult' = r.result
             /\ mustSendState' = (mustSendState \/ r.result.stateChanged)
             /\ mustCheckNetworkClicks' =
                    (mustCheckNetworkClicks \/ r.result.networkClickHandled)
    /\ UNCHANGED <<now, cfg, setup, inputBuffer, runs, clickables, indicators, lastClickablesCheck_ms,
                   lastNetworkClickCheckTime_ms, lastAutoOffCheckTime_ms,
                   pc, pollIdx, clickResult, ref>>

ReceiveStep == ReceiveFrom(Frames)

\* the serial buffer is empty: the while loop ends
DrainDone ==
    /\ pc = "drain"
    /\ pc' = "netcheck"
    /\ doc' = <<>>
    /\ dispatchResult' = DefaultResult
    /\ clickResult' = "NO_CLICK"
    /\ obs' = [obs EXCEPT !.ackAge = -1, !.prevRx = <<>>]
    /\ UNCHANGED <<now, cfg, setup, inputBuffer, runs, actuators, clickables, indicators,
                   longClickedNetworkClickables, superLongClickedNetworkClickables,
                   lastSentPayloadTime_ms, lastReceivedPayloadTime_ms,
                   firstValidPayloadReceived, mustSendState, mustCheckNetworkClicks,
                   lastClickablesCheck_ms, lastNetworkClickCheckTime_ms,
                   lastAutoOffCheckTime_ms, pollIdx, out, acts, rxCount, ref>>

\* "if (mustCheckNetworkClicks)": the timeout check of the pending network clicks
NetCheck ==
    /\ pc = "netcheck"
    /\ pc' = "autooff"
    /\ IF mustCheckNetworkClicks
          /\ Elapsed(now, lastNetworkClickCheckTime_ms) > NETWORK_CLICK_CHECK_INTERVAL_MS
       THEN \E r \in {checkAllNetworkClicksTimers(World, cfg, FALSE, now)} :
               /\ lastNetworkClickCheckTime_ms' = now
               /\ Commit(r.w, now, obs)
               /\ mustSendState' = (mustSendState \/ r.ret)
               /\ mustCheckNetworkClicks' = thereAreActiveNetworkCLicks(r.w)
       ELSE /\ Commit(World, now, obs)
            /\ UNCHANGED <<lastNetworkClickCheckTime_ms, mustSendState,
                           mustCheckNetworkClicks>>
    /\ UNCHANGED <<now, cfg, setup, inputBuffer, runs, clickables, indicators, lastClickablesCheck_ms,
                   lastAutoOffCheckTime_ms, pollIdx, clickResult, doc, dispatchResult, rxCount, ref>>

\* the auto-off sweep
AutoOff ==
    /\ pc = "autooff"
    /\ pc' = "send"
    /\ IF Elapsed(now, lastAutoOffCheckTime_ms) > ACTUATORS_AUTO_OFF_CHECK_INTERVAL_MS
       THEN \E r \in {actuatorsAutoOffTimersCheck(actuators, cfg, now)} :
               /\ lastAutoOffCheckTime_ms' = now
               /\ Commit([World EXCEPT !.A = r.A], now, obs)
               /\ mustSendState' = (mustSendState \/ r.changed)
       ELSE /\ Commit(World, now, obs)
            /\ UNCHANGED <<lastAutoOffCheckTime_ms, mustSendState>>
    /\ UNCHANGED <<now, cfg, setup, inputBuffer, runs, clickables, indicators, mustCheckNetworkClicks,
                   lastClickablesCheck_ms, lastNetworkClickCheckTime_ms,
                   pollIdx, clickResult, doc, dispatchResult, rxCount, ref>>

\* seeded fault: the gate comparing with >= instead of >
canSendState_ge(w, t) == Elapsed(t, w.lastRecv) >= DELAY_AFTER_RECEIVE_MS

\* seeded fault: the gate staying closed until a first valid frame was received
canSendState_afterFirstFrame(w, t) ==
    w.firstValid /\ Elapsed(t, w.lastRecv) > DELAY_AFTER_RECEIVE_MS

\* the gate of the state broadcast
canSendState(w, t) == Elapsed(t, w.lastRecv) > DELAY_AFTER_RECEIVE_MS

\* "if (mustSendState)": the gated state broadcast, end of the iteration
SendState ==
    /\ pc = "send"
    /\ pc' = "start"
    /\ IF mustSendState /\ canSendState(World, now)
       THEN LET w1 == serializeActuatorsState(World, now)
            IN /\ actuators' = w1.A
               /\ longClickedNetworkClickables' = w1.L
               /\ superLongClickedNetworkClickables' = w1.SL
               /\ lastSentPayloadTime_ms' = w1.lastSent
               /\ lastReceivedPayloadTime_ms' = w1.lastRecv
               /\ firstValidPayloadReceived' = w1.firstValid
               /\ out' = w1.out
               /\ acts' = w1.acts
               /\ indicators' = indicatorsCheck(indicators, actuators, cfg)
               /\ mustSendState' = FALSE
               /\ obs' = [obs EXCEPT !.changedSince = FALSE, !.gatedTx = TRUE]
       ELSE /\ Commit(World, now, obs)
            /\ UNCHANGED <<indicators, mustSendState>>
    /\ UNCHANGED <<now, cfg, setup, inputBuffer, runs, clickables, mustCheckNetworkClicks, lastClickablesCheck_ms,
                   lastNetworkClickCheckTime_ms, lastAutoOffCheckTime_ms,
                   pollIdx, clickResult, doc, dispatchResult, rxCount, ref>>

Next == LoopStart \/ ClickStep \/ ReceiveStep \/ DrainDone \/ NetCheck \/ AutoOff \/ SendState

Spec == Init /\ [][Next]_vars

----------------------------------------------------------------------------
(* The loop of one device, the bridge delivering also the frames a correct
   bridge would not send: records with a missing command, id, click type or
   state, ids of objects that are not registered, values out of range. *)

\* [kind |-> "other"]: a value that is no uint8 (a string, a number above 255)
OtherS == [kind |-> "other", v |-> <<>>]

MalformedFrames ==
    {Frame(0, 1, 1, IntS(1)), Frame(9, 0, 0, NullS)}
    \cup {Frame(12, 0, 0, sv) : sv \in {NullS, IntS(1), ArrayS(<<1>>), ArrayS(<<1, 1, 1>>)}}
    \cup {Frame(13, i, 0, IntS(1)) : i \in {0, 9}}
    \cup {Frame(13, 1, 0, sv) : sv \in {NullS, OtherS, IntS(2)}}
    \cup {Frame(p, i, 1, NullS) : p \in {14, 16}, i \in {0, 9}}
    \cup {Frame(p, 1, t, NullS) : p \in {14, 16}, t \in {0, 3}}

InitRx ==
    /\ InitWith(Device(1, Button("ON_ONLY", TRUE, "DO_NOTHING",
                                 "SELECTIVE", TRUE, "LOCAL_FALLBACK")))
    /\ runs = <<>>

ReceiveAny == ReceiveFrom(Frames \cup MalformedFrames)

NextRx == LoopStart \/ ClickStep \/ ReceiveAny \/ DrainDone \/ NetCheck \/ AutoOff \/ SendState

SpecRx == InitRx /\ [][NextRx]_vars

----------------------------------------------------------------------------
(* Text framing: the first pass of the loop, the serial port delivering one
   character at a time.  The JSON text of a record is kept as three characters,
   "{", a letter for its content and "}"; deserializeJson reads the first
   value of the buffer and ignores what follows it. *)

MaxChars == 12        \* characters the bridge sends in one run

RAW_INPUT_BUFFER_SIZE == 5

LF == "\n"
Chars == {"x", "{", "p", "r", "}", LF}

\* deserializeJson(doc, inputBuffer, ...): the decoded record, BadFrame on an error
deserializeJson(buffer) ==
    IF Len(buffer) >= 3 /\ buffer[1] = "{" /\ buffer[2] \in {"p", "r"} /\ buffer[3] = "}"
    THEN Frame(IF buffer[2] = "p" THEN 5 ELSE 11, 0, 0, NullS)
    ELSE BadFrame

\* bookkeeping of one received character
ObsChar(o, c, full, isDecoded) ==
    [o EXCEPT !.chars = @ + 1,
              !.overflowed = (c # LF) /\ (@ \/ full),
              !.decoded = IF isDecoded THEN @ + 1 ELSE @]

\* what a character leaves alone when no line is parsed
CharFrame ==
    UNCHANGED <<actuators, longClickedNetworkClickables, superLongClickedNetworkClickables,
                lastSentPayloadTime_ms, lastReceivedPayloadTime_ms,
                firstValidPayloadReceived, mustSendState, mustCheckNetworkClicks,
                doc, dispatchResult, out, acts>>

\* the "Buffer overflow!" branch: bytesRead = 0
overflowReset(buffer) == <<>>

\* EspCom::receiveAndDispatch, text framing: one pass of its while loop on the
\* character c
ReceiveChar ==
    /\ pc = "drain"
    /\ obs.chars < MaxChars
    /\ \E c \in Chars :
          IF c = LF
          THEN IF Len(inputBuffer) > 0
               THEN \E f \in {deserializeJson(inputBuffer)} :
                    \E r \in {receiveAndDispatch(World, cfg, f, now)} :
                       /\ inputBuffer' = <<>>
                       /\ actuators' = r.w.A
                       /\ longClickedNetworkClickables' = r.w.L
                       /\ superLongClickedNetworkClickables' = r.w.SL
                       /\ lastSentPayloadTime_ms' = r.w.lastSent
                       /\ lastReceivedPayloadTime_ms' = r.w.lastRecv
                       /\ firstValidPayloadReceived' = r.w.firstValid
                       /\ out' = r.w.out
                       /\ acts' = r.w.acts
                       /\ doc' = <<f>>
                       /\ dispatchResult' = r.result
                       /\ mustSendState' = (mustSendState \/ r.result.stateChanged)
                       /\ mustCheckNetworkClicks' =
                              (mustCheckNetworkClicks \/ r.result.networkClickHandled)
                       /\ obs' = ObsChar(obs, c, FALSE, f.ok)
               ELSE /\ UNCHANGED inputBuffer
                    /\ CharFrame
                    /\ obs' = ObsChar(obs, c, FALSE, FALSE)
          ELSE IF Len(inputBuffer) < RAW_INPUT_BUFFER_SIZE - 1
               THEN /\ inputBuffer' = Append(inputBuffer, c)
                    /\ CharFrame
                    /\ obs' = ObsChar(obs, c, FALSE, FALSE)
               ELSE /\ inputBuffer' = overflowReset(inputBuffer)
                    /\ CharFrame
                    /\ obs' = ObsChar(obs, c, TRUE, FALSE)
    /\ UNCHANGED <<now, cfg, setup, runs, clickables, indicators, lastClickablesCheck_ms,
                   lastNetworkClickCheckTime_ms, lastAutoOffCheckTime_ms,
                   pc, pollIdx, clickResult, rxCount, ref>>

InitLine ==
    /\ InitWith(Device(0, Button("OFF_ONLY", FALSE, "NONE", "NORMAL", FALSE, "NONE")))
    /\ runs = <<>>

NextLine == LoopStart \/ ClickStep \/ ReceiveChar

SpecLine == InitLine /\ [][NextLine]_vars

----------------------------------------------------------------------------
(* Two runs of the loop of one device side by side: the same clock and the
   same button levels, each run with inbound frames of its own.  A run is the
   state of LSH::loop as one record: w the record of World, the other fields
   the variables of the same names. *)

NewRun(C) ==
    [w |-> [A |-> [i \in ActIdx |-> NewActuator(C.act[i + 1])],
            L |-> EmptyMap, SL |-> EmptyMap,
            lastSent |-> 0, lastRecv |-> 0, firstValid |-> FALSE,
            out |-> <<[p |-> 4]>>, acts |-> <<>>],
     clickables |-> [i \in ClkIdx |-> NewClickable],
     indicators |-> [i \in IndIdx |-> NewIndicator],
     mustSendState |-> FALSE, mustCheckNetworkClicks |-> FALSE,
     lastClickablesCheck_ms |-> 0, lastNetworkClickCheckTime_ms |-> 0,
     lastAutoOffCheckTime_ms |-> 0, clickResult |-> "NO_CLICK"]

\* the head of an iteration (LoopStart) on the run R
RunStart(R, t) ==
    IF Elapsed(t, R.lastClickablesCheck_ms) # 0
    THEN [R EXCEPT !.w = serializeStaticJson([R.w EXCEPT !.out = <<>>, !.acts = <<>>],
                                             "PING", t),
                   !.lastClickablesCheck_ms = t]
    ELSE [R EXCEPT !.w = [R.w EXCEPT !.out = <<>>, !.acts = <<>>]]

\* one pass of the clickables for-loop (ClickStep)
RunClick(R, C, idx, isPressed, t) ==
    LET r == clickDetection(R.clickables[idx], C.clk[idx + 1], isPressed, t)
        d == dispatchClick(R.w, C, idx, r.res, t)
    IN [R EXCEPT !.clickables[idx] = r.k, !.clickResult = r.res, !.w = d.w,
                 !.mustSendState = @ \/ d.sendState,
                 !.mustCheckNetworkClicks = @ \/ d.checkNet]

\* the serial drain (ReceiveStep, DrainDone): fs the frames the run finds in
\* its serial buffer, in order
RECURSIVE RunDrain(_, _, _, _)
RunDrain(R, C, fs, t) ==
    IF fs = <<>> THEN [R EXCEPT !.clickResult = "NO_CLICK"]
    ELSE LET r == receiveAndDispatch(R.w, C, Head(fs), t)
         IN RunDrain([R EXCEPT !.w = r.w,
                               !.mustSendState = @ \/ r.result.stateChanged,
                               !.mustCheckNetworkClicks = @ \/ r.result.networkClickHandled],
                     C, Tail(fs), t)

\* the timeout check of the pending network clicks (NetCheck)
RunNetCheck(R, C, t) ==
    IF R.mustCheckNetworkClicks
       /\ Elapsed(t, R.lastNetworkClickCheckTime_ms) > NETWORK_CLICK_CHECK_INTERVAL_MS
    THEN LET r == checkAllNetworkClicksTimers(R.w, C, FALSE, t)
         IN [R EXCEPT !.w = r.w, !.lastNetworkClickCheckTime_ms = t,
                      !.mustSendState = @ \/ r.ret,
                      !.mustCheckNetworkClicks = thereAreActiveNetworkCLicks(r.w)]
    ELSE R

\* the auto-off sweep (AutoOff)
RunAutoOff(R, C, t) ==
    IF Elapsed(t, R.lastAutoOffCheckTime_ms) > ACTUATORS_AUTO_OFF_CHECK_INTERVAL_MS
    THEN LET r == actuatorsAutoOffTimersCheck(R.w.A, C, t)
         IN [R EXCEPT !.w.A = r.A, !.lastAutoOffCheckTime_ms = t,
                      !.mustSendState = @ \/ r.changed]
    ELSE R

\* the gated state broadcast (SendState)
RunSend(R, C, t) ==
    IF R.mustSendState /\ canSendState(R.w, t)
    THEN [R EXCEPT !.w = serializeActuatorsState(R.w, t),
                   !.indicators = indicatorsCheck(R.indicators, R.w.A, C),
                   !.mustSendState = FALSE]
    ELSE R

\* the inbound frames that carry no mutating command
QuietFrames == {BadFrame} \cup {Frame(p, 0, 0, NullS) : p \in {4, 5, 10, 11}}

\* a device without network clicks: long and super-long clicks act locally
InitPair ==
    /\ InitWith(Device(3, Button("NORMAL", FALSE, "NONE", "NORMAL", FALSE, "NONE")))
    /\ runs = <<NewRun(cfg), NewRun(cfg)>>

\* both runs take the step of the loop at position pc, with the same clock
\* and the same button level; in the drain the bridge delivers a frame or
\* nothing to the first run, and to the second, whose link is quiet but for a
\* PING now and then
PairStep ==
    /\ CASE pc = "start" ->
             \E dt \in 0 .. MaxDt :
                /\ now + dt <= MaxTime
                /\ now' = now + dt
                /\ runs' = [k \in {1, 2} |-> RunStart(runs[k], now + dt)]
                /\ pc' = IF Elapsed(now + dt, runs[1].lastClickablesCheck_ms) # 0
                            /\ CONFIG_MAX_CLICKABLES > 0
                         THEN "click" ELSE "drain"
                /\ pollIdx' = 0
         [] pc = "click" ->
             \E isPressed \in BOOLEAN :
                /\ runs' = [k \in {1, 2} |-> RunClick(runs[k], cfg, pollIdx, isPressed, now)]
                /\ pollIdx' = pollIdx + 1
                /\ pc' = IF pollIdx + 1 < CONFIG_MAX_CLICKABLES THEN "click" ELSE "drain"
                /\ now' = now
         [] pc = "drain" ->
             \E f1 \in {<<>>} \cup {<<f>> : f \in QuietFrames},
                f2 \in {<<>>, <<Frame(5, 0, 0, NullS)>>} :
                /\ runs' = <<RunDrain(runs[1], cfg, f1, now), RunDrain(runs[2], cfg, f2, now)>>
                /\ pc' = "netcheck"
                /\ UNCHANGED <<now, pollIdx>>
         [] pc = "netcheck" ->
                /\ runs' = [k \in {1, 2} |-> RunNetCheck(runs[k], cfg, now)]
                /\ pc' = "autooff"
                /\ UNCHANGED <<now, pollIdx>>
         [] pc = "autooff" ->
                /\ runs' = [k \in {1, 2} |-> RunAutoOff(runs[k], cfg, now)]
                /\ pc' = "send"
                /\ UNCHANGED <<now, pollIdx>>
         [] pc = "send" ->
                /\ runs' = [k \in {1, 2} |-> RunSend(runs[k], cfg, now)]
                /\ pc' = "start"
                /\ UNCHANGED <<now, pollIdx>>
    /\ UNCHANGED <<cfg, setup, inputBuffer, actuators, clickables, indicators,
                   longClickedNetworkClickables, superLongClickedNetworkClickables,
                   lastSentPayloadTime_ms, lastReceivedPayloadTime_ms,
                   firstValidPayloadReceived, mustSendState, mustCheckNetworkClicks,
                   lastClickablesCheck_ms, lastNetworkClickCheckTime_ms,
                   lastAutoOffCheckTime_ms, clickResult, doc, dispatchResult,
                   out, acts, obs, rxCount, ref>>

SpecPair == InitPair /\ [][PairStep]_vars

----------------------------------------------------------------------------
(* A single clickable polled on its own: every capability combination, every
   sequence of sampled levels, polls 1 .. MaxGap ms apart.  The reference
   machine is stepped on the same samples. *)

\* a button with the given capabilities, every list holding actuator 0
FsmButton(shortOk, longOk, superLongOk) ==
    check(addActuators(
            setClickableSuperLong(
              setClickableLong(setClickableShort(ClickableCfg(1), shortOk),
                               longOk, "NORMAL", FALSE, "NONE"),
              superLongOk, "NORMAL", FALSE, "NONE"),
            <<0>>, <<0>>, <<0>>))

FsmConfigs ==
    { Device(0, FsmButton(s, l, sl)) : s \in BOOLEAN, l \in BOOLEAN, sl \in BOOLEAN }

InitFSM == (\E C \in FsmConfigs : InitWith(C)) /\ runs = <<>>

\* the capability bits of a configured clickable, as the table names them
CapsOf(c) == [short_ok |-> c.isShortClickable, long_ok |-> c.isLongClickable,
              super_long_ok |-> c.isSuperLongClickable]

\* one call of clickDetection() on clickable 0 after the clock advanced by dt
FsmPoll ==
    /\ \E dt \in 1 .. MaxGap : \E isPressed \in BOOLEAN :
          /\ now + dt <= MaxTime
          /\ now' = now + dt
          /\ \E r \in {clickDetection(clickables[0], cfg.clk[1], isPressed, now + dt)} :
                /\ clickables' = [clickables EXCEPT ![0] = r.k]
                /\ clickResult' = r.res
                /\ obs' = ObsPress(obs, clickables[0], r.k, r.res, isPressed, now + dt)
          /\ ref' = RefStep(ref, CapsOf(cfg.clk[1]), isPressed, now + dt)
    /\ UNCHANGED <<cfg, setup, inputBuffer, runs, actuators, indicators,
                   longClickedNetworkClickables, superLongClickedNetworkClickables,
                   lastSentPayloadTime_ms, lastReceivedPayloadTime_ms,
                   firstValidPayloadReceived, mustSendState, mustCheckNetworkClicks,
                   lastClickablesCheck_ms, lastNetworkClickCheckTime_ms,
                   lastAutoOffCheckTime_ms, pc, pollIdx, doc, dispatchResult,
                   out, acts, rxCount>>

NextFSM == FsmPoll

SpecFSM == InitFSM /\ [][NextFSM]_vars

----------------------------------------------------------------------------
(* LSH::setup step by step: the add calls of Configurator::configure(), then
   Configurator::finalizeSetup(), then the BOOT payload, then the loop.  Every
   program explored registers at least as many objects of each kind as the
   arrays hold, as the devices of the loop specification do. *)

AddActuatorCall(c) == [kind |-> "actuator", c |-> c]
AddClickableCall(c) == [kind |-> "clickable", c |-> c]
AddIndicatorCall(c) == [kind |-> "indicator", c |-> c]

\* the objects the explored programs register
SetupButton(id) ==
    [ButtonCfg("NORMAL", TRUE, "LOCAL_FALLBACK", "SELECTIVE", TRUE, "LOCAL_FALLBACK")
        EXCEPT !.id = id]
SetupIndicator == IndicatorCfg(<<0, 1>>, "ANY")

\* the explored configure() bodies: one that fits, and ones with a duplicate
\* id or one object too many
Programs ==
    { <<AddActuatorCall(ActuatorCfg(1, FALSE, 3, FALSE)),
        AddActuatorCall(ActuatorCfg(id2, TRUE, 0, TRUE))>>
      \o extraActuator \o <<AddClickableCall(SetupButton(1))>> \o extraClickable
      \o <<AddIndicatorCall(SetupIndicator)>> \o extraIndicator :
        id2 \in {1, 2},
        extraActuator \in {<<>>, <<AddActuatorCall(ActuatorCfg(3, FALSE, 0, FALSE))>>},
        extraClickable \in {<<>>, <<AddClickableCall(SetupButton(1))>>,
                            <<AddClickableCall(SetupButton(2))>>},
        extraIndicator \in {<<>>, <<AddIndicatorCall(SetupIndicator)>>} }

\* a configure() for a build with room for one more clickable, registering two
\* buttons with the same id
DuplicateButtons ==
    <<AddActuatorCall(ActuatorCfg(1, FALSE, 3, FALSE)),
      AddActuatorCall(ActuatorCfg(2, TRUE, 0, TRUE)),
      AddClickableCall(SetupButton(1)), AddClickableCall(SetupButton(1)),
      AddIndicatorCall(SetupIndicator)>>

\* the explored builds: a program and the clickable capacity it is compiled with
Builds ==
    {[program |-> program, maxClickables |-> CONFIG_MAX_CLICKABLES] : program \in Programs}
    \cup {[program |-> DuplicateButtons, maxClickables |-> CONFIG_MAX_CLICKABLES + 1]}

\* the state when setup() is entered: objects constructed, nothing registered
InitSetupOf(builds, times) ==
    /\ now \in times
    /\ cfg = [act |-> <<>>, clk |-> <<>>, ind |-> <<>>]
    /\ actuators = EmptyMap
    /\ clickables = EmptyMap
    /\ indicators = EmptyMap
    /\ longClickedNetworkClickables = EmptyMap
    /\ superLongClickedNetworkClickables = EmptyMap
    /\ lastSentPayloadTime_ms = 0
    /\ lastReceivedPayloadTime_ms = 0
    /\ firstValidPayloadReceived = FALSE
    /\ mustSendState = FALSE
    /\ mustCheckNetworkClicks = FALSE
    /\ lastClickablesCheck_ms = 0
    /\ lastNetworkClickCheckTime_ms = 0
    /\ lastAutoOffCheckTime_ms = 0
    /\ pc = "configure"
    /\ pollIdx = 0
    /\ clickResult = "NO_CLICK"
    /\ doc = <<>>
    /\ dispatchResult = DefaultResult
    /\ out = <<>>
    /\ acts = <<>>
    /\ obs = ObsInit
    /\ rxCount = 0
    /\ ref = RefInit
    /\ \E b \in builds : setup = NewRegistry(b.program, b.maxClickables)
    /\ inputBuffer = <<>>
    /\ runs = <<>>

InitSetup == InitSetupOf(Builds, {0})

\* what the setup steps leave alone
SetupFrame ==
    UNCHANGED <<now, longClickedNetworkClickables, superLongClickedNetworkClickables,
                lastSentPayloadTime_ms, lastReceivedPayloadTime_ms,
                firstValidPayloadReceived, mustSendState, mustCheckNetworkClicks,
                lastClickablesCheck_ms, lastNetworkClickCheckTime_ms,
                lastAutoOffCheckTime_ms, pollIdx, clickResult, doc, dispatchResult,
                out, acts, obs, rxCount, ref, inputBuffer, runs>>

\* deviceReset(): interrupts off, then the endless wait for the watchdog
DeviceReset ==
    /\ pc' = "reset"
    /\ UNCHANGED <<cfg, actuators, clickables, indicators, setup>>

\* Configurator::addActuator
AddActuator ==
    /\ pc = "configure"
    /\ setup.todo # <<>> /\ Head(setup.todo).kind = "actuator"
    /\ IF actuatorsFull(setup)
       THEN DeviceReset
       ELSE /\ cfg' = [cfg EXCEPT !.act = Append(@, Head(setup.todo).c)]
            /\ actuators' = mapPut(actuators, setup.totalActuators,
                                   NewActuator(Head(setup.todo).c))
            /\ setup' = addActuator(setup, Head(setup.todo).c)
            /\ UNCHANGED <<pc, clickables, indicators>>
    /\ SetupFrame

\* Configurator::addClickable
AddClickable ==
    /\ pc = "configure"
    /\ setup.todo # <<>> /\ Head(setup.todo).kind = "clickable"
    /\ IF clickablesFull(setup)
       THEN DeviceReset
       ELSE /\ cfg' = [cfg EXCEPT !.clk = Append(@, Head(setup.todo).c)]
            /\ clickables' = mapPut(clickables, setup.totalClickables, NewClickable)
            /\ setup' = addClickable(setup, Head(setup.todo).c)
            /\ UNCHANGED <<pc, actuators, indicators>>
    /\ SetupFrame

\* Configurator::addIndicator
AddIndicator ==
    /\ pc = "configure"
    /\ setup.todo # <<>> /\ Head(setup.todo).kind = "indicator"
    /\ IF indicatorsFull(setup)
       THEN DeviceReset
       ELSE /\ cfg' = [cfg EXCEPT !.ind = Append(@, Head(setup.todo).c)]
            /\ indicators' = mapPut(indicators, setup.totalIndicators, NewIndicator)
            /\ setup' = addIndicator(setup)
            /\ UNCHANGED <<pc, actuators, clickables>>
    /\ SetupFrame

\* Configurator::finalizeSetup, once configure() has returned: Actuators (the
\* auto-off index loop, then the duplicate test), then Clickables (check() on
\* every clickable, then the duplicate test), then Indicators.  Each loop is a
\* range-based for over the whole array: on a slot that was never set it goes
\* through a null pointer, after which the call may not return (pc "fault") or
\* goes on with whatever was read
FinalizeSetup ==
    /\ pc = "configure"
    /\ setup.todo = <<>>
    /\ LET unsetActuators == UnsetSlots(setup.totalActuators, CONFIG_MAX_ACTUATORS)
           visited ==
               Visits("actuator", CONFIG_MAX_ACTUATORS)
               \cup (IF ~actuatorsMapComplete(setup) THEN {}
                     ELSE Visits("clickable", setup.maxClickables)
                          \cup (IF ~clickablesMapComplete(setup) THEN {}
                                ELSE Visits("indicator", CONFIG_MAX_INDICATORS)))
           throughNull ==
               \/ unsetActuators # {}
               \/ /\ actuatorsMapComplete(setup)
                  /\ \/ UnsetSlots(setup.totalClickables, setup.maxClickables) # {}
                     \/ /\ clickablesMapComplete(setup)
                        /\ UnsetSlots(setup.totalIndicators, CONFIG_MAX_INDICATORS) # {}
       IN \E nullRead \in [unsetActuators -> BOOLEAN], returns \in BOOLEAN :
            /\ returns \/ throughNull
            /\ obs' = [obs EXCEPT !.visited = visited]
            /\ setup' = [setup EXCEPT !.actuatorsWithAutoOffIndexes =
                                          autoOffIndexLoop(cfg, nullRead, 0)]
            /\ IF ~returns
               THEN pc' = "fault" /\ UNCHANGED cfg
               ELSE IF ~actuatorsMapComplete(setup)
               THEN pc' = "reset" /\ UNCHANGED cfg
               ELSE /\ cfg' = [cfg EXCEPT !.clk = [i \in 1 .. Len(@) |-> check(@[i])]]
                    /\ pc' = IF clickablesMapComplete(setup) THEN "boot" ELSE "reset"
    /\ UNCHANGED <<actuators, clickables, indicators>>
    /\ UNCHANGED <<now, longClickedNetworkClickables, superLongClickedNetworkClickables,
                   lastSentPayloadTime_ms, lastReceivedPayloadTime_ms,
                   firstValidPayloadReceived, mustSendState, mustCheckNetworkClicks,
                   lastClickablesCheck_ms, lastNetworkClickCheckTime_ms,
                   lastAutoOffCheckTime_ms, pollIdx, clickResult, doc, dispatchResult,
                   out, acts, rxCount, ref, inputBuffer, runs>>

\* Serializer::serializeStaticJson(BOOT), the last statement of setup()
SendBoot ==
    /\ pc = "boot"
    /\ pc' = "start"
    /\ Commit(serializeStaticJson(World, "BOOT", now), now, obs)
    /\ UNCHANGED <<now, cfg, setup, inputBuffer, runs, clickables, indicators, mustSendState,
                   mustCheckNetworkClicks, lastClickablesCheck_ms,
                   lastNetworkClickCheckTime_ms, lastAutoOffCheckTime_ms,
                   pollIdx, clickResult, doc, dispatchResult, rxCount, ref>>

NextSetup ==
    \/ AddActuator \/ AddClickable \/ AddIndicator \/ FinalizeSetup \/ SendBoot
    \/ Next

SpecSetup == InitSetup /\ [][NextSetup]_vars

----------------------------------------------------------------------------
(* The loop that keeps running: the iterations follow one another, millis()
   keeps advancing up to the end of the explored window, and the bridge sends
   its last frame more than DELAY_AFTER_RECEIVE_MS before that end *)

\* the frames the bridge sends: a keep-alive and a state command
LiveFrames == {Frame(5, 0, 0, NullS), Frame(12, 0, 0, ArrayS(<<1, 1>>))}

\* a frame is received while the window leaves room for the delay after it
ReceiveInTime ==
    /\ now + DELAY_AFTER_RECEIVE_MS < MaxTime
    /\ ReceiveFrom(LiveFrames)

\* an iteration that finds millis() advanced
ClockAdvances == LoopStart /\ now' > now

InitLive ==
    /\ InitWith(Device(0, Button("OFF_ONLY", FALSE, "NONE", "NORMAL", FALSE, "NONE")))
    /\ runs = <<>>

NextLive ==
    \/ LoopStart \/ ClickStep \/ ReceiveInTime \/ DrainDone \/ NetCheck \/ AutoOff
    \/ SendState

SpecLive ==
    /\ InitLive
    /\ [][NextLive]_vars
    /\ WF_vars(NextLive)
    /\ SF_vars(ClockAdvances)

----------------------------------------------------------------------------
(* Builds that register fewer objects than the arrays hold: setup, then the
   requests of the bridge that go through the arrays *)

\* the objects such a configure() registers: two relays, the second with an
\* auto-off timer, a button on the first relay, an indicator of it
PartialActuators == <<AddActuatorCall(ActuatorCfg(1, FALSE, 0, FALSE)),
                      AddActuatorCall(ActuatorCfg(2, FALSE, 3, FALSE))>>
PartialButton(nActuators) ==
    addActuators(ClickableCfg(1), IF nActuators > 0 THEN <<0>> ELSE <<>>, <<>>, <<>>)
PartialIndicator(nActuators) ==
    IndicatorCfg(IF nActuators > 0 THEN <<0>> ELSE <<>>, "ANY")

\* the explored builds: every number of add calls up to the capacities
PartialBuilds ==
    {[program |-> SubSeq(PartialActuators, 1, nActuators)
                  \o (IF nClickables > 0 THEN <<AddClickableCall(PartialButton(nActuators))>>
                      ELSE <<>>)
                  \o (IF nIndicators > 0 THEN <<AddIndicatorCall(PartialIndicator(nActuators))>>
                      ELSE <<>>),
      maxClickables |-> CONFIG_MAX_CLICKABLES] :
        nActuators \in 0 .. CONFIG_MAX_ACTUATORS,
        nClickables \in 0 .. CONFIG_MAX_CLICKABLES,
        nIndicators \in 0 .. CONFIG_MAX_INDICATORS}

InitPartial == InitSetupOf(PartialBuilds, {0, ACTUATOR_DEBOUNCE_TIME_MS})

\* what a read through the null pointer of an unset slot can give
NullBytes == {0, 1}

\* the requests sent to such a build
PartialFrames ==
    {Frame(p, 0, 0, NullS) : p \in {10, 11}}
    \cup {Frame(12, 0, 0, ArrayS(v)) :
             v \in UNION {[1 .. n -> {0, 1}] : n \in 0 .. CONFIG_MAX_ACTUATORS}}

\* EspCom::receiveAndDispatch of one request with the registries as they are:
\* REQUEST_DETAILS and REQUEST_STATE answer with a range-based for over the
\* whole arrays (getId() / getState() through a null pointer on an unset
\* slot), SET_STATE compares the vector with totalActuators and sets the
\* registered actuators
ReceivePartial ==
    /\ pc = "start"
    /\ \E f \in PartialFrames, returns \in BOOLEAN,
          nullActuator \in [UnsetSlots(setup.totalActuators, CONFIG_MAX_ACTUATORS) -> NullBytes],
          nullClickable \in [UnsetSlots(setup.totalClickables, setup.maxClickables) -> NullBytes] :
         LET accepted == f.p = 12 /\ Len(f.s.v) = setup.totalActuators
             visited ==
                 CASE f.p = 10 -> Visits("actuator", CONFIG_MAX_ACTUATORS)
                                  \cup Visits("clickable", setup.maxClickables)
                   [] f.p = 11 -> Visits("actuator", CONFIG_MAX_ACTUATORS)
                   [] OTHER -> IF accepted THEN Visits("actuator", setup.totalActuators) ELSE {}
             throughNull ==
                 \E v \in visited :
                     v.slot >= (IF v.kind = "actuator" THEN setup.totalActuators
                                ELSE setup.totalClickables)
             details ==
                 [p |-> 1,
                  a |-> [i \in 1 .. CONFIG_MAX_ACTUATORS |->
                            IF i <= setup.totalActuators THEN cfg.act[i].id
                            ELSE nullActuator[i - 1]],
                  b |-> [i \in 1 .. setup.maxClickables |->
                            IF i <= setup.totalClickables THEN cfg.clk[i].id
                            ELSE nullClickable[i - 1]]]
             state ==
                 [p |-> 2,
                  s |-> [i \in 1 .. CONFIG_MAX_ACTUATORS |->
                            IF i <= setup.totalActuators
                            THEN (IF actuators[i - 1].actualState THEN 1 ELSE 0)
                            ELSE nullActuator[i - 1]]]
             set == [i \in DOMAIN actuators |->
                        IF accepted THEN setState(actuators[i], f.s.v[i + 1] = 1, now)
                        ELSE [a |-> actuators[i], changed |-> FALSE]]
             changed == \E i \in DOMAIN actuators : set[i].changed
         IN /\ returns \/ throughNull
            /\ obs' = [obs EXCEPT !.visited = visited]
            /\ doc' = <<f>>
            /\ lastReceivedPayloadTime_ms' = now
            /\ firstValidPayloadReceived' = TRUE
            /\ IF ~returns
               THEN /\ pc' = "fault"
                    /\ UNCHANGED <<actuators, out, lastSentPayloadTime_ms, dispatchResult,
                                   mustSendState>>
               ELSE /\ pc' = "start"
                    /\ actuators' = [i \in DOMAIN actuators |-> set[i].a]
                    /\ out' = CASE f.p = 10 -> <<details>>
                                 [] f.p = 11 -> <<state>>
                                 [] OTHER -> <<>>
                    /\ lastSentPayloadTime_ms' = IF f.p \in {10, 11} THEN now
                                                  ELSE lastSentPayloadTime_ms
                    /\ dispatchResult' = [stateChanged |-> changed,
                                          networkClickHandled |-> FALSE]
                    /\ mustSendState' = (mustSendState \/ changed)
    /\ UNCHANGED <<now, cfg, setup, inputBuffer, runs, clickables, indicators,
                   longClickedNetworkClickables, superLongClickedNetworkClickables,
                   mustCheckNetworkClicks, lastClickablesCheck_ms,
                   lastNetworkClickCheckTime_ms, lastAutoOffCheckTime_ms,
                   pollIdx, clickResult, acts, rxCount, ref>>

NextPartial ==
    \/ AddActuator \/ AddClickable \/ AddIndicator \/ FinalizeSetup \/ SendBoot
    \/ ReceivePartial

SpecPartial == InitPartial /\ [][NextPartial]_vars

----------------------------------------------------------------------------
(* Vocabulary of the properties *)

Kinds == {"LONG", "SUPER_LONG"}

\* the pending map of one click kind
PendingOf(kind) ==
    IF kind = "LONG" THEN longClickedNetworkClickables ELSE superLongClickedNetworkClickables

\* the same map after the step
PendingNext(kind) ==
    IF kind = "LONG" THEN longClickedNetworkClickables'
    ELSE superLongClickedNetworkClickables'

\* the link is connected: a valid frame was received less than
\* CONNECTION_TIMEOUT_MS ago
LinkUp ==
    firstValidPayloadReceived /\ now - lastReceivedPayloadTime_ms < CONNECTION_TIMEOUT_MS

KindOfResult(res) == IF res = "LONG_CLICK" THEN "LONG" ELSE "SUPER_LONG"
WireKind(kind) == IF kind = "LONG" THEN 1 ELSE 2
KindOfWire(t) == IF t = 1 THEN "LONG" ELSE "SUPER_LONG"

NetEnabled(c, kind) ==
    IF kind = "LONG" THEN c.isNetworkLongClickable ELSE c.isNetworkSuperLongClickable
FallbackOf(c, kind) ==
    IF kind = "LONG" THEN c.longClickFallback ELSE c.superLongClickFallback

\* the NETWORK_CLICK message of clickable index i
NetworkClickMsg(i, kind, c) ==
    [p |-> 3, t |-> WireKind(kind), i |-> cfg.clk[i + 1].id, c |-> c]

\* the entry the observation log gets for a fallback / a local click action
FallbackAct(i, kind) == [i |-> i, type |-> kind, via |-> "fallback"]
LocalAct(i, kind) == [i |-> i, type |-> kind, via |-> "local"]

\* number of occurrences of e in the sequence q
Count(q, e) == Cardinality({k \in 1 .. Len(q) : q[k] = e})

\* the step is one pass of the clickables for-loop / one received frame /
\* an auto-off sweep that runs / the end-of-iteration broadcast step
IsClickStep == pollIdx' = pollIdx + 1
IsReceiveStep == rxCount' = rxCount + 1
IsSweep ==
    /\ pc = "autooff" /\ pc' = "send"
    /\ now - lastAutoOffCheckTime_ms > ACTUATORS_AUTO_OFF_CHECK_INTERVAL_MS
IsSendStep == pc = "send" /\ pc' = "start"

\* the frame consumed by a receive step, and the clickable index it addresses
RxFrame == doc'[1]
RxClickable == (CHOOSE k \in 1 .. CONFIG_MAX_CLICKABLES : cfg.clk[k].id = RxFrame.i) - 1

\* the pending entries in the order a drain visits them: the long map by key,
\* then the super-long map by key
RECURSIVE PendingSeq(_, _)
PendingSeq(kind, i) ==
    IF i >= CONFIG_MAX_CLICKABLES THEN <<>>
    ELSE (IF i \in DOMAIN PendingOf(kind) THEN << <<i, kind>> >> ELSE <<>>)
         \o PendingSeq(kind, i + 1)

AllPending == PendingSeq("LONG", 0) \o PendingSeq("SUPER_LONG", 0)

\* what running the configured fallback of every entry of todo, once each and
\* in order, makes of the actuators A and of the log
RECURSIVE RunFallbacks(_, _, _, _)
RunFallbacks(A, log, todo, t) ==
    IF todo = <<>> THEN [A |-> A, log |-> log]
    ELSE LET i == Head(todo)[1]
             kind == Head(todo)[2]
             c == cfg.clk[i + 1]
         IN IF FallbackOf(c, kind) = "LOCAL_FALLBACK"
            THEN RunFallbacks(click(A, cfg, c, kind, t).A, Append(log, FallbackAct(i, kind)),
                              Tail(todo), t)
            ELSE RunFallbacks(A, log, Tail(todo), t)

----------------------------------------------------------------------------
(* Direct calls.  The operations are applied one at a time to a device whose
   clock runs through the wrap of the counter: a long click with any type and
   list, the refresh of an indicator with any mode and list, the emission of a
   static payload in either framing.  Stamp is an instant at which every
   timed object gets its reference timestamp (an actuator switches, a button
   changes level, a click is requested, a frame is sent and one received,
   both sweeps run, the line is read empty); obs.elapsed counts the
   milliseconds since, unwrapped.  One call runs between two Stamps, at
   any time after the first. *)

\* constants::payloads: the bytes of the static payloads
JSON_BOOT_BYTES == <<123, 34, 112, 34, 58, 52, 125, 10>>
MSGPACK_BOOT_BYTES == <<129, 161, 112, 4>>
JSON_PING_BYTES == <<123, 34, 112, 34, 58, 53, 125, 10>>
MSGPACK_PING_BYTES == <<129, 161, 112, 5>>

\* seeded fault: the PING payload answered for BOOT too
get_alwaysPing(IsMsgPack, type) ==
    IF IsMsgPack THEN MSGPACK_PING_BYTES ELSE JSON_PING_BYTES

\* utils::payloads::get<IsMsgPack>(type)
get(IsMsgPack, type) ==
    IF IsMsgPack
    THEN CASE type = "BOOT" -> MSGPACK_BOOT_BYTES
           [] type = "PING" -> MSGPACK_PING_BYTES
           [] OTHER -> <<>>
    ELSE CASE type = "BOOT" -> JSON_BOOT_BYTES
           [] type = "PING" -> JSON_PING_BYTES
           [] OTHER -> <<>>

\* the variables no direct call touches
CallFrame ==
    UNCHANGED <<cfg, setup, inputBuffer, runs, mustCheckNetworkClicks,
                pc, pollIdx, clickResult, ref>>

\* no call has run since the clock or the reference timestamps last moved
Settled == obs.call.op \in {"none", "tick", "stamp"}

\* timeKeeper::update(): millis() one millisecond later, wrapping to 0
Tick ==
    /\ Settled
    /\ obs.elapsed + 1 < TimeModulus \div 2
    /\ now' = (now + 1) % TimeModulus
    /\ obs' = [obs EXCEPT !.elapsed = @ + 1, !.call = Call("tick", "", <<>>, FALSE)]
    /\ CallFrame
    /\ UNCHANGED <<doc, dispatchResult, acts, rxCount>>
    /\ UNCHANGED <<lastClickablesCheck_ms, actuators, clickables, indicators, longClickedNetworkClickables,
                   superLongClickedNetworkClickables, lastSentPayloadTime_ms,
                   lastReceivedPayloadTime_ms, firstValidPayloadReceived,
                   mustSendState, lastNetworkClickCheckTime_ms,
                   lastAutoOffCheckTime_ms, out>>

\* every timed object takes the cached time as its reference
Stamp ==
    /\ actuators' = [i \in ActIdx |-> [actuators[i] EXCEPT !.lastTimeSwitched = now]]
    /\ clickables' = [i \in ClkIdx |->
                         [currentState |-> "PRESSED", stateChangeTime |-> now,
                          lastActionFired |-> "NONE"]]
    /\ longClickedNetworkClickables' = mapPut(EmptyMap, 0, now)
    /\ superLongClickedNetworkClickables' = mapPut(EmptyMap, 0, now)
    /\ lastSentPayloadTime_ms' = now
    /\ lastReceivedPayloadTime_ms' = now
    /\ firstValidPayloadReceived' = TRUE
    /\ lastClickablesCheck_ms' = now
    /\ lastNetworkClickCheckTime_ms' = now
    /\ lastAutoOffCheckTime_ms' = now
    /\ mustSendState' = FALSE
    /\ out' = <<>>
    /\ acts' = <<>>
    /\ doc' = <<>>
    /\ dispatchResult' = DefaultResult
    /\ rxCount' = 0
    /\ obs' = [obs EXCEPT !.stamp = now, !.elapsed = 0, !.call = Call("stamp", "", <<>>, FALSE),
                          !.written = <<>>]
    /\ CallFrame
    /\ UNCHANGED <<now, indicators>>

\* Clickable::longClick() called on a clickable of any long type and list;
\* mustSendState takes the returned value
LongClickCall ==
    /\ Settled
    /\ \E type \in {"NORMAL", "ON_ONLY", "OFF_ONLY"},
          list \in {<<>>, <<0>>, <<1>>, <<0, 1>>} :
          \E r \in {longClick(actuators,
                              [cfg.clk[1] EXCEPT !.longClickType = type,
                                                 !.actuatorsLong = list], now)} :
             /\ actuators' = r.A
             /\ mustSendState' = r.changed
             /\ obs' = [obs EXCEPT !.call = Call("longClick", type, list, FALSE)]
    /\ CallFrame
    /\ UNCHANGED <<doc, dispatchResult, acts, rxCount>>
    /\ UNCHANGED <<lastClickablesCheck_ms, now, clickables, indicators, longClickedNetworkClickables,
                   superLongClickedNetworkClickables, lastSentPayloadTime_ms,
                   lastReceivedPayloadTime_ms, firstValidPayloadReceived,
                   lastNetworkClickCheckTime_ms, lastAutoOffCheckTime_ms, out>>

\* Indicator::check() called on an indicator of any mode and list
IndicatorCall ==
    /\ Settled
    /\ \E mode \in {"ANY", "ALL", "MAJORITY"}, list \in {<<0>>, <<1>>, <<0, 1>>} :
          /\ indicators' = [indicators EXCEPT
                               ![0] = indicatorCheck(@, actuators, IndicatorCfg(list, mode))]
          /\ obs' = [obs EXCEPT
                        !.call = Call("check", mode, list, FALSE),
                        !.pinWritten =
                            indicatorWrites(indicators[0],
                                            indicatorValue(actuators,
                                                           IndicatorCfg(list, mode)))]
    /\ CallFrame
    /\ UNCHANGED <<doc, dispatchResult, acts, rxCount>>
    /\ UNCHANGED <<lastClickablesCheck_ms, now, actuators, clickables, longClickedNetworkClickables,
                   superLongClickedNetworkClickables, lastSentPayloadTime_ms,
                   lastReceivedPayloadTime_ms, firstValidPayloadReceived,
                   mustSendState, lastNetworkClickCheckTime_ms,
                   lastAutoOffCheckTime_ms, out>>

\* Serializer::serializeStaticJson(type) in a build with either framing; out
\* keeps the message of this call only, obs.written the bytes put on the line
SendStatic ==
    /\ Settled
    /\ \E type \in {"BOOT", "PING"}, useMsgPack \in BOOLEAN :
          \E w \in {serializeStaticJson(World, type, now)} :
             /\ lastSentPayloadTime_ms' = w.lastSent
             /\ out' = SubSeq(w.out, Len(out) + 1, Len(w.out))
             /\ obs' = [obs EXCEPT !.call = Call("static", type, <<>>, useMsgPack),
                                   !.written = IF Len(w.out) > Len(out)
                                               THEN get(useMsgPack, type) ELSE <<>>]
    /\ CallFrame
    /\ UNCHANGED <<doc, dispatchResult, acts, rxCount>>
    /\ UNCHANGED <<lastClickablesCheck_ms, now, actuators, clickables, indicators,
                   longClickedNetworkClickables, superLongClickedNetworkClickables,
                   lastReceivedPayloadTime_ms, firstValidPayloadReceived,
                   mustSendState, lastNetworkClickCheckTime_ms,
                   lastAutoOffCheckTime_ms>>

\* NetworkClicks::request() called for the clickable and either kind, with
\* the pair pending or not
RequestCall ==
    /\ Settled
    /\ \E kind \in {"LONG", "SUPER_LONG"} :
          \E w \in {request(World, cfg, 0, kind, now)} :
             /\ longClickedNetworkClickables' = w.L
             /\ superLongClickedNetworkClickables' = w.SL
             /\ lastSentPayloadTime_ms' = w.lastSent
             /\ out' = w.out
             /\ obs' = [obs EXCEPT !.call = Call("request", kind, <<>>, FALSE)]
    /\ CallFrame
    /\ UNCHANGED <<doc, dispatchResult, acts, rxCount>>
    /\ UNCHANGED <<lastClickablesCheck_ms, now, actuators, clickables, indicators,
                   lastReceivedPayloadTime_ms, firstValidPayloadReceived,
                   mustSendState, lastNetworkClickCheckTime_ms,
                   lastAutoOffCheckTime_ms>>

\* one of the calls that settle pending network clicks: receiveAndDispatch()
\* on a NETWORK_CLICK_ACK, FAILOVER_CLICK or FAILOVER frame, or the timeout
\* check of the loop, checkAllNetworkClicksTimers(false)
SettleCall ==
    /\ Settled
    /\ \E r \in {LET x == receiveAndDispatch(World, cfg, f, now)
                 IN [w |-> x.w, ret |-> x.result.stateChanged, doc |-> <<f>>,
                     result |-> x.result, op |-> "receive"] :
                        f \in {Frame(15, 0, 0, NullS)}
                              \cup {Frame(p, 1, t, NullS) : p \in {14, 16}, t \in {1, 2}}}
                \cup {[w |-> x.w, ret |-> x.ret, doc |-> <<>>,
                       result |-> DefaultResult, op |-> "timers"] :
                         x \in {checkAllNetworkClicksTimers(World, cfg, FALSE, now)}} :
          /\ actuators' = r.w.A
          /\ longClickedNetworkClickables' = r.w.L
          /\ superLongClickedNetworkClickables' = r.w.SL
          /\ lastSentPayloadTime_ms' = r.w.lastSent
          /\ lastReceivedPayloadTime_ms' = r.w.lastRecv
          /\ firstValidPayloadReceived' = r.w.firstValid
          /\ out' = r.w.out
          /\ acts' = r.w.acts
          /\ doc' = r.doc
          /\ dispatchResult' = r.result
          /\ rxCount' = IF r.op = "receive" THEN rxCount + 1 ELSE rxCount
          /\ lastNetworkClickCheckTime_ms' =
                IF r.op = "timers" THEN now ELSE lastNetworkClickCheckTime_ms
          /\ mustSendState' = r.ret
          /\ obs' = [obs EXCEPT !.call = Call(r.op, "", <<>>, FALSE)]
    /\ CallFrame
    /\ UNCHANGED <<lastClickablesCheck_ms, now, clickables, indicators,
                   lastAutoOffCheckTime_ms>>

InitCalls ==
    /\ InitWith(Device(3, Button("NORMAL", TRUE, "LOCAL_FALLBACK", "NORMAL", TRUE, "DO_NOTHING")))
    /\ runs = <<>>

NextCalls ==
    \/ Tick \/ Stamp \/ LongClickCall \/ IndicatorCall \/ SendStatic
    \/ RequestCall \/ SettleCall

SpecCalls == InitCalls /\ [][NextCalls]_vars

----------------------------------------------------------------------------
(* Network clicks *)

\* C1: a pending network click that got no ACK within LCNB_TIMEOUT_MS leaves
\* the pending map only in a step that settles it by its fallback, whatever
\* frame is being processed: with LOCAL_FALLBACK the local action runs exactly
\* once in that step, with DO_NOTHING no action runs for it.
C1_OverdueClickFallsBack ==
    [][\A kind \in Kinds : \A i \in ClkIdx :
          (/\ i \in DOMAIN PendingOf(kind)
           /\ now - PendingOf(kind)[i] > LCNB_TIMEOUT_MS
           /\ i \notin DOMAIN PendingNext(kind))
          => IF FallbackOf(cfg.clk[i + 1], kind) = "LOCAL_FALLBACK"
             THEN Count(acts', FallbackAct(i, kind)) = Count(acts, FallbackAct(i, kind)) + 1
             ELSE Count(acts', FallbackAct(i, kind)) = Count(acts, FallbackAct(i, kind))
      ]_vars

\* C2: a LONG_CLICK / SUPER_LONG_CLICK of a network-enabled kind detected while
\* the link is connected emits NETWORK_CLICK c=0 in the same for-loop pass,
\* records the pending entry at the current time and changes no actuator; an
\* ACK processed while the entry is at most LCNB_TIMEOUT_MS old emits
\* NETWORK_CLICK c=1, removes the entry and changes no actuator.
C2_RequestThenAck ==
    [][/\ (/\ IsClickStep
           /\ clickResult' \in {"LONG_CLICK", "SUPER_LONG_CLICK"}
           /\ NetEnabled(cfg.clk[pollIdx + 1], KindOfResult(clickResult'))
           /\ LinkUp)
          => LET kind == KindOfResult(clickResult')
             IN /\ out' = Append(out, NetworkClickMsg(pollIdx, kind, 0))
                /\ pollIdx \in DOMAIN PendingNext(kind)
                /\ PendingNext(kind)[pollIdx] = now
                /\ actuators' = actuators
                /\ mustCheckNetworkClicks'
       /\ (/\ IsReceiveStep
           /\ AckAgeOf(RxFrame, cfg, now) >= 0
           /\ AckAgeOf(RxFrame, cfg, now) <= LCNB_TIMEOUT_MS)
          => LET kind == KindOfWire(RxFrame.t)
             IN /\ out' = Append(out, NetworkClickMsg(RxClickable, kind, 1))
                /\ RxClickable \notin DOMAIN PendingNext(kind)
                /\ actuators' = actuators
      ]_vars

\* an ACK in time has just been confirmed: c=1 is on the wire, the entry is gone
C2_Witness ==
    /\ pc = "drain" /\ doc # <<>> /\ doc[1].p = 14
    /\ obs.ackAge >= 1 /\ obs.ackAge <= LCNB_TIMEOUT_MS
    /\ out # <<>> /\ out[Len(out)] = NetworkClickMsg(0, KindOfWire(doc[1].t), 1)
    /\ 0 \notin DOMAIN PendingOf(KindOfWire(doc[1].t))
    /\ \A i \in ActIdx : obs.lastSwitch[i] = -1

\* C3: a NETWORK_CLICK_ACK that meets no pending entry, or an entry older
\* than LCNB_TIMEOUT_MS, writes nothing to the link and changes no actuator.
C3_StaleAckIgnored ==
    [][(/\ IsReceiveStep
        /\ RxFrame.ok /\ RxFrame.p = 14
        /\ (AckAgeOf(RxFrame, cfg, now) = -1 \/ AckAgeOf(RxFrame, cfg, now) > LCNB_TIMEOUT_MS))
       => /\ out' = out
          /\ actuators' = actuators
          /\ ~dispatchResult'.stateChanged
      ]_vars

\* an ACK has just met an entry older than the timeout and nothing was sent
C3_Witness ==
    /\ pc = "drain" /\ doc # <<>> /\ doc[1].p = 14
    /\ obs.ackAge > LCNB_TIMEOUT_MS
    /\ \A k \in 1 .. Len(out) : out[k].p # 3

\* C4: processing FAILOVER empties both pending maps whatever the ages, runs
\* the local action once for every pending entry whose fallback is
\* LOCAL_FALLBACK and none for the others, and reports stateChanged exactly
\* when some actuator switched.
C4_FailoverDrains ==
    [][(IsReceiveStep /\ RxFrame.ok /\ RxFrame.p = 15)
       => LET e == RunFallbacks(actuators, acts, AllPending, now)
          IN /\ longClickedNetworkClickables' = EmptyMap
             /\ superLongClickedNetworkClickables' = EmptyMap
             /\ actuators' = e.A
             /\ acts' = e.log
             /\ dispatchResult'.stateChanged = (\E i \in ActIdx : Switched(actuators, actuators', i))
      ]_vars

\* FAILOVER has just drained the pending entries, a local fallback ran and
\* switched an actuator
C4_Witness ==
    /\ pc = "drain" /\ doc # <<>> /\ doc[1].p = 15
    /\ acts # <<>> /\ acts[Len(acts)].via = "fallback"
    /\ dispatchResult.stateChanged
    /\ \E i \in ActIdx : obs.lastSwitch[i] = now
    /\ ~thereAreActiveNetworkCLicks(World)

\* C5: a LONG_CLICK / SUPER_LONG_CLICK of a network-enabled kind detected while
\* the link is not connected sends nothing and records no pending entry; with
\* LOCAL_FALLBACK the local action runs in the same for-loop pass, with any
\* other fallback nothing changes.
C5_OfflineClick ==
    [][(/\ IsClickStep
        /\ clickResult' \in {"LONG_CLICK", "SUPER_LONG_CLICK"}
        /\ NetEnabled(cfg.clk[pollIdx + 1], KindOfResult(clickResult'))
        /\ ~LinkUp)
       => LET kind == KindOfResult(clickResult')
              c == cfg.clk[pollIdx + 1]
              r == click(actuators, cfg, c, kind, now)
          IN /\ out' = out
             /\ longClickedNetworkClickables' = longClickedNetworkClickables
             /\ superLongClickedNetworkClickables' = superLongClickedNetworkClickables
             /\ mustCheckNetworkClicks' = mustCheckNetworkClicks
             /\ IF FallbackOf(c, kind) = "LOCAL_FALLBACK"
                THEN /\ actuators' = r.A
                     /\ acts' = Append(acts, LocalAct(pollIdx, kind))
                     /\ mustSendState' = (mustSendState \/ r.changed)
                ELSE /\ actuators' = actuators
                     /\ acts' = acts
                     /\ mustSendState' = mustSendState
      ]_vars

\* a network-enabled long click was just detected with the link down and its
\* local fallback switched an actuator
C5_Witness ==
    /\ pc = "drain" /\ doc = <<>>
    /\ clickResult \in {"LONG_CLICK", "SUPER_LONG_CLICK"}
    /\ NetEnabled(cfg.clk[1], KindOfResult(clickResult))
    /\ ~LinkUp
    /\ acts = <<LocalAct(0, KindOfResult(clickResult))>>
    /\ \E i \in ActIdx : obs.lastSwitch[i] = now
    /\ mustSendState

----------------------------------------------------------------------------
(* The gated state broadcast *)

\* the ACTUATORS_STATE message showing the actuators A
StateMsg(A) ==
    [p |-> 2, s |-> [i \in 1 .. CONFIG_MAX_ACTUATORS |-> IF A[i - 1].actualState THEN 1 ELSE 0]]

\* C6: once a valid frame was decoded at time r, no iteration with
\* now - r <= DELAY_AFTER_RECEIVE_MS emits the gated state broadcast, r being
\* the time of the latest valid frame; so none is emitted in the iteration that
\* decoded a frame.
C6_BroadcastWaitsAfterReceive ==
    obs.gatedTx =>
        (obs.lastValidRx = -1 \/ now - obs.lastValidRx > DELAY_AFTER_RECEIVE_MS)

\* the gated broadcast went out in the first iteration the delay allows
C6_Witness ==
    /\ obs.gatedTx
    /\ obs.lastValidRx >= 0
    /\ now - obs.lastValidRx = DELAY_AFTER_RECEIVE_MS + 1

\* C7: every gated state broadcast follows a switch of some actuator made
\* since the previous gated broadcast (since boot for the first one); a frame
\* that switches nothing, such as a NETWORK_CLICK_ACK, leads to none.
C7_BroadcastOnlyAfterChange ==
    [][(IsSendStep /\ obs'.gatedTx) => obs.changedSince]_vars

----------------------------------------------------------------------------
(* Actuators *)

C9_SetStateDebounce ==
    [][/\ \A i \in ActIdx :
             \/ actuators'[i] = actuators[i]
             \/ /\ actuators'[i].actualState # actuators[i].actualState
                /\ actuators'[i].hw = actuators'[i].actualState
                /\ actuators'[i].lastTimeSwitched = now'
                /\ now' - actuators[i].lastTimeSwitched >= ACTUATOR_DEBOUNCE_TIME_MS
                /\ (obs.lastSwitch[i] >= 0
                    => now' - obs.lastSwitch[i] >= ACTUATOR_DEBOUNCE_TIME_MS)
       /\ (/\ IsReceiveStep
           /\ RxFrame.ok /\ RxFrame.p = 13 /\ RxFrame.s.kind = "int"
           /\ \E k \in 1 .. CONFIG_MAX_ACTUATORS : cfg.act[k].id = RxFrame.i)
          => LET i == (CHOOSE k \in 1 .. CONFIG_MAX_ACTUATORS : cfg.act[k].id = RxFrame.i) - 1
                 target == (RxFrame.s.v[1] = 1)
                 applies == /\ target # actuators[i].actualState
                            /\ now - actuators[i].lastTimeSwitched >= ACTUATOR_DEBOUNCE_TIME_MS
             IN /\ dispatchResult'.stateChanged = applies
                /\ actuators'[i] = IF applies
                                   THEN [actualState |-> target, lastTimeSwitched |-> now,
                                         hw |-> target]
                                   ELSE actuators[i]
      ]_vars

\* a SET_SINGLE_ACTUATOR asking for a real change has just been refused because
\* the actuator was switched less than the debounce time ago
C9_Witness ==
    /\ pc = "drain" /\ doc # <<>> /\ doc[1].p = 13
    /\ ~dispatchResult.stateChanged
    /\ (doc[1].s.v[1] = 1) # actuators[0].actualState
    /\ obs.lastSwitch[0] >= 0
    /\ now - obs.lastSwitch[0] < ACTUATOR_DEBOUNCE_TIME_MS
    /\ actuators[0].lastTimeSwitched = obs.lastSwitch[0]
    /\ actuators[0].hw = actuators[0].actualState

----------------------------------------------------------------------------
(* The click FSM against the transition table *)

\* C10: for every capability combination and every sequence of samples, each
\* call of clickDetection() returns what the reference machine of the
\* transition table emits on the same sample, and both machines are then in
\* the same FSM state with the same t0 and last action.
C10_ClickDetectionFollowsTable ==
    /\ clickResult = ref.emit
    /\ clickables[0].currentState = ref.state
    /\ clickables[0].currentState # "IDLE"
       => /\ clickables[0].stateChangeTime = ref.t0
    /\ clickables[0].currentState = "PRESSED"
       => clickables[0].lastActionFired = ref.last

\* a press held over both thresholds emitted SUPER_LONG_CLICK after LONG_CLICK
\* was skipped between two polls
C10_Witness ==
    /\ clickResult = "SUPER_LONG_CLICK"
    /\ ref.emit = "SUPER_LONG_CLICK"
    /\ cfg.clk[1].isLongClickable
    /\ now - clickables[0].stateChangeTime = CLICKABLE_SUPER_LONG_CLICK_TIME_MS
    /\ pc = "start" /\ rxCount = 0 /\ lastClickablesCheck_ms = 0

----------------------------------------------------------------------------
(* Press duration and the events of one press (single-clickable specification) *)

\* the poll that takes clickable 0 from PRESSED to IDLE: the release of a press
IsRelease ==
    clickables[0].currentState = "PRESSED" /\ clickables'[0].currentState = "IDLE"

\* C11 as the specification words it: whatever the capabilities of the
\* clickable, the release of a press that was sampled pressed for at least
\* CLICKABLE_LONG_CLICK_TIME_MS never returns SHORT_CLICK.
C11_NoShortAfterLongPressAnyConfig ==
    [][(IsRelease /\ obs.held >= CLICKABLE_LONG_CLICK_TIME_MS)
       => clickResult' # "SHORT_CLICK"]_vars

\* C11: for a long-clickable clickable, whatever its other capabilities and
\* whatever the polling pattern, the release of a press that was sampled
\* pressed for at least CLICKABLE_LONG_CLICK_TIME_MS never returns SHORT_CLICK.
C11_NoShortAfterLongPress ==
    [][(/\ IsRelease
        /\ cfg.clk[1].isLongClickable
        /\ obs.held >= CLICKABLE_LONG_CLICK_TIME_MS)
       => clickResult' # "SHORT_CLICK"]_vars

\* a short- and long-clickable button was just released after a press held
\* over the long threshold: LONG_CLICK fired in the press, the release gave NO_CLICK
C11_Witness ==
    /\ cfg.clk[1].isShortClickable /\ cfg.clk[1].isLongClickable
    /\ clickables[0].currentState = "IDLE"
    /\ obs.held >= CLICKABLE_LONG_CLICK_TIME_MS
    /\ obs.fired = <<"LONG_CLICK">>
    /\ clickResult = "NO_CLICK"

QuickOk(c) == c.isShortClickable /\ ~c.isLongClickable /\ ~c.isSuperLongClickable

\* C13: clickDetection() returns SHORT_CLICK_QUICK exactly in the polls that
\* take a quick clickable from DEBOUNCING to PRESSED, so once per press and
\* never for a clickable that is not quick; the release of a quick clickable
\* returns NO_CLICK, and SHORT_CLICK_QUICK stays the only event of the press.
C13_QuickClickOnPress ==
    [][/\ (clickResult' = "SHORT_CLICK_QUICK")
          <=> (/\ QuickOk(cfg.clk[1])
               /\ clickables[0].currentState = "DEBOUNCING"
               /\ clickables'[0].currentState = "PRESSED")
       /\ (IsRelease /\ QuickOk(cfg.clk[1]))
          => (clickResult' = "NO_CLICK" /\ obs'.fired = <<"SHORT_CLICK_QUICK">>)
       /\ (QuickOk(cfg.clk[1]) /\ clickables'[0].currentState = "PRESSED")
          => obs'.fired = <<"SHORT_CLICK_QUICK">>
      ]_vars

\* a quick clickable was held on after its SHORT_CLICK_QUICK and just released
C13_Witness ==
    /\ QuickOk(cfg.clk[1])
    /\ clickables[0].currentState = "IDLE"
    /\ obs.held >= CLICKABLE_SUPER_LONG_CLICK_TIME_MS
    /\ obs.fired = <<"SHORT_CLICK_QUICK">>
    /\ clickResult = "NO_CLICK"
    /\ ref.state = "IDLE" /\ ref.last = "NONE"

----------------------------------------------------------------------------
(* The state vector on the wire *)

\* the frame is a SET_STATE whose vector has one entry per actuator
IsSetState(f) ==
    f.ok /\ f.p = 12 /\ f.s.kind = "array" /\ Len(f.s.v) = CONFIG_MAX_ACTUATORS

\* the switch of actuator i to the level target is refused by the debounce
Rejected(i, target) ==
    /\ target # actuators[i].actualState
    /\ now - actuators[i].lastTimeSwitched < ACTUATOR_DEBOUNCE_TIME_MS

\* C14: a SET_STATE with one entry per actuator leaves every actuator at its
\* entry of the vector, except where the switch is refused by the debounce,
\* which keeps the previous state; when no actuator switched in the last
\* ACTUATOR_DEBOUNCE_TIME_MS the states are exactly the vector; REQUEST_STATE
\* answers at once with an ACTUATORS_STATE holding the state of every actuator
\* in index order; so a REQUEST_STATE right after a SET_STATE answers the
\* vector, except at the refused positions.
C14_SetStateRoundTrip ==
    [][/\ (IsReceiveStep /\ IsSetState(RxFrame))
          => /\ \A i \in ActIdx :
                   actuators'[i].actualState =
                       IF Rejected(i, RxFrame.s.v[i + 1] = 1)
                       THEN actuators[i].actualState
                       ELSE (RxFrame.s.v[i + 1] = 1)
             /\ (\A i \in ActIdx :
                    now - actuators[i].lastTimeSwitched >= ACTUATOR_DEBOUNCE_TIME_MS)
                => StateMsg(actuators').s = RxFrame.s.v
       /\ (IsReceiveStep /\ RxFrame.ok /\ RxFrame.p = 11)
          => /\ out' = Append(out, StateMsg(actuators))
             /\ Len(out'[Len(out')].s) = CONFIG_MAX_ACTUATORS
             /\ actuators' = actuators
             /\ (doc # <<>> /\ IsSetState(doc[1]))
                => \A i \in ActIdx :
                      \/ out'[Len(out')].s[i + 1] = doc[1].s.v[i + 1]
                      \/ now - actuators[i].lastTimeSwitched < ACTUATOR_DEBOUNCE_TIME_MS
      ]_vars

\* REQUEST_STATE was just answered right after a SET_STATE [0,0] that was
\* refused for actuator 0, switched on by a click in this iteration
C14_Witness ==
    /\ pc = "drain" /\ doc # <<>> /\ doc[1].p = 11
    /\ obs.prevRx # <<>> /\ IsSetState(obs.prevRx[1]) /\ obs.prevRx[1].s.v = <<0, 0>>
    /\ acts # <<>> /\ obs.lastSwitch[0] = now
    /\ out # <<>> /\ out[Len(out)] = [p |-> 2, s |-> <<1, 0>>]

----------------------------------------------------------------------------
(* The boot sequence *)

\* the DEVICE_DETAILS message of the registered device
DetailsMsg ==
    [p |-> 1,
     a |-> [i \in 1 .. CONFIG_MAX_ACTUATORS |-> cfg.act[i].id],
     b |-> [i \in 1 .. CONFIG_MAX_CLICKABLES |-> cfg.clk[i].id]]

BootMsg == [p |-> 4]

\* BOOT is written exactly by the last step of setup(), as the first message:
\* nothing is on the link before it and no later step writes another one
BootOnceAfterFinalize ==
    /\ (pc = "boot" /\ pc' = "start")
       => (out = <<>> /\ out' = <<BootMsg>> /\ setup.todo = <<>>
           /\ \A i \in 1 .. Len(cfg.clk) : cfg.clk[i].isChecked)
    /\ pc' \in {"configure", "boot", "reset"} => out' = <<>>
    /\ pc # "boot" => Count(out', BootMsg) <= Count(out, BootMsg)

\* C15 as the specification words it: BOOT is the first outbound message, sent
\* once after configure and finalize; every inbound REQUEST_DETAILS and every
\* inbound BOOT is answered in the receive step itself by DEVICE_DETAILS
\* followed by ACTUATORS_STATE, with both result flags false.
C15_DetailsAndStateOnBothRequests ==
    [][/\ BootOnceAfterFinalize
       /\ (IsReceiveStep /\ RxFrame.ok /\ RxFrame.p \in {4, 10})
          => /\ out' = out \o <<DetailsMsg, StateMsg(actuators)>>
             /\ dispatchResult' = DefaultResult
      ]_vars

\* C15: BOOT is the first outbound message, sent once after configure and
\* finalize; every inbound BOOT is answered in the receive step itself, whatever
\* the broadcast gate, by DEVICE_DETAILS followed by ACTUATORS_STATE, and every
\* inbound REQUEST_DETAILS by DEVICE_DETAILS alone; both leave the actuators
\* alone and give both result flags false.
C15_BootSequence ==
    [][/\ BootOnceAfterFinalize
       /\ (IsReceiveStep /\ RxFrame.ok /\ RxFrame.p = 4)
          => /\ out' = out \o <<DetailsMsg, StateMsg(actuators)>>
             /\ dispatchResult' = DefaultResult
             /\ actuators' = actuators
       /\ (IsReceiveStep /\ RxFrame.ok /\ RxFrame.p = 10)
          => /\ out' = Append(out, DetailsMsg)
             /\ dispatchResult' = DefaultResult
             /\ actuators' = actuators
      ]_vars

\* the device that sent BOOT at the end of setup() has just answered an inbound
\* BOOT with its details and its states, in the iteration of the frame
C15_Witness ==
    /\ setup.program \in Programs /\ setup.todo = <<>>
    /\ pc = "drain" /\ doc # <<>> /\ doc[1].p = 4
    /\ lastReceivedPayloadTime_ms = now
    /\ Len(out) >= 2
    /\ out[Len(out) - 1] = DetailsMsg /\ out[Len(out)] = StateMsg(actuators)
    /\ dispatchResult = DefaultResult

----------------------------------------------------------------------------
(* Keep-alive *)

PingMsg == [p |-> 5]

\* the step is the head of a loop iteration / a polling iteration
IsLoopStart == pc = "start" /\ pc' # "start"
IsPollingIteration == IsLoopStart /\ now' # lastClickablesCheck_ms

\* the step writes at least one message to the serial link
SendsMessage == IF pc = "start" THEN out' # <<>> ELSE Len(out') > Len(out)

\* C16: a polling iteration emits a PING exactly when, at its time,
\* now - lastSentPayloadTime_ms > PING_INTERVAL_MS, and no other step emits one;
\* a step that writes a message sets lastSentPayloadTime_ms to now and no other
\* step changes it, so that a PING is more than PING_INTERVAL_MS after the
\* previous message and the silence before an iteration is at most
\* PING_INTERVAL_MS plus the time since the previous iteration
C16_PingKeepAlive ==
    [][/\ IsPollingIteration
          => ((out' = <<PingMsg>>) <=> (now' - lastSentPayloadTime_ms > PING_INTERVAL_MS))
       /\ (IsLoopStart /\ ~IsPollingIteration) => out' = <<>>
       /\ ~IsLoopStart
          => \A k \in Len(out) + 1 .. Len(out') : out'[k] # PingMsg
       /\ IF SendsMessage THEN lastSentPayloadTime_ms' = now'
          ELSE lastSentPayloadTime_ms' = lastSentPayloadTime_ms
       /\ now' - lastSentPayloadTime_ms <= PING_INTERVAL_MS + (now' - now)]_vars

\* a PING has just been written, later than the first possible one, after
\* traffic other than BOOT
C16_Witness ==
    /\ pc \in {"click", "drain"}
    /\ out = <<PingMsg>>
    /\ lastSentPayloadTime_ms = now
    /\ now > PING_INTERVAL_MS + 1
    /\ rxCount > 0

----------------------------------------------------------------------------
(* Connection state *)

\* the frames that decode and are then turned down by the dispatcher: unknown
\* command, vector of the wrong length, unknown actuator id, invalid click type
RejectedFrames ==
    {Frame(9, 0, 0, NullS), Frame(12, 0, 0, ArrayS(<<1>>)),
     Frame(13, 9, 0, IntS(1)), Frame(14, 1, 3, NullS)}

\* a frame has decoded, the last one less than CONNECTION_TIMEOUT_MS ago
ValidRxRecently ==
    obs.lastValidRx >= 0 /\ now - obs.lastValidRx < CONNECTION_TIMEOUT_MS

\* C17: isConnected() is false until a first frame decodes and from then on true
\* exactly when the last decoded frame is less than CONNECTION_TIMEOUT_MS old;
\* a frame that fails to decode changes neither firstValidPayloadReceived nor
\* lastReceivedPayloadTime_ms, a frame that decodes sets them to TRUE and now,
\* also when the dispatcher rejects it (and then nothing else of the device
\* changes), and no other step touches them
C17_ConnectionTracksValidFrames ==
    [][/\ isConnected(World, now) <=> ValidRxRecently
       /\ (IsReceiveStep /\ ~RxFrame.ok)
          => UNCHANGED <<firstValidPayloadReceived, lastReceivedPayloadTime_ms>>
       /\ (IsReceiveStep /\ RxFrame.ok)
          => (firstValidPayloadReceived' /\ lastReceivedPayloadTime_ms' = now)
       /\ (IsReceiveStep /\ RxFrame \in RejectedFrames)
          => (/\ dispatchResult' = DefaultResult
              /\ UNCHANGED <<actuators, out, longClickedNetworkClickables,
                             superLongClickedNetworkClickables>>)
       /\ ~IsReceiveStep
          => UNCHANGED <<firstValidPayloadReceived, lastReceivedPayloadTime_ms>>
       /\ pc' = "start" => (LinkUp' <=> ValidRxRecently')]_vars

\* a rejected frame, first of its iteration and late in the run, has just
\* refreshed the receive time and the link is up
C17_Witness ==
    /\ pc = "drain"
    /\ doc # <<>>
    /\ doc[1] \in RejectedFrames
    /\ obs.prevRx = <<>>
    /\ lastReceivedPayloadTime_ms = now
    /\ now > CONNECTION_TIMEOUT_MS
    /\ LinkUp

----------------------------------------------------------------------------
(* Actuator state and hardware output *)

\* C18: the state attribute of every actuator equals the level last written to
\* its output, from its construction on and whatever its default state
C18_StateMatchesOutput ==
    \A i \in DOMAIN actuators : actuators[i].actualState = actuators[i].hw

----------------------------------------------------------------------------
(* Super-long click actions and protected actuators *)

\* the step runs click actions, every one of them a super-long one
RunsOnlySuperLong ==
    /\ pc # "start"
    /\ Len(acts') > Len(acts)
    /\ \A k \in Len(acts) + 1 .. Len(acts') : acts'[k].type = "SUPER_LONG"

\* the actuators a super-long action of clickable c addresses
SuperLongTargets(c) ==
    IF c.superLongClickType = "NORMAL" THEN ActIdx
    ELSE {c.actuatorsSuperLong[k] : k \in 1 .. Len(c.actuatorsSuperLong)}

\* C19: a step whose click actions are super-long ones (local, fallback after a
\* timeout, FAILOVER or FAILOVER_CLICK; NORMAL or SELECTIVE) leaves every
\* protected actuator as it was, and every unprotected actuator the action
\* addresses as setState(false) leaves it
C19_SuperLongSparesProtected ==
    [][RunsOnlySuperLong
       => \A i \in ActIdx :
             actuators'[i] =
                IF /\ ~cfg.act[i + 1].isProtected
                   /\ i \in SuperLongTargets(cfg.clk[acts'[Len(acts')].i + 1])
                THEN setState(actuators[i], FALSE, now).a
                ELSE actuators[i]]_vars

\* a FAILOVER or FAILOVER_CLICK has just run the super-long fallback: the
\* unprotected actuator went off, the protected one is still on
C19_Witness ==
    /\ acts # <<>>
    /\ acts[Len(acts)] = FallbackAct(0, "SUPER_LONG")
    /\ doc # <<>>
    /\ doc[1].p \in {15, 16}
    /\ \E i, j \in ActIdx :
          /\ cfg.act[i + 1].isProtected
          /\ actuators[i].actualState
          /\ ~cfg.act[j + 1].isProtected
          /\ ~actuators[j].actualState
          /\ actuators[j].lastTimeSwitched = now
          /\ now > 0

----------------------------------------------------------------------------
(* Fatal configurations *)

\* the add calls of one kind among the first n calls of the program
CallsOf(kind, n) == {k \in 1 .. n : setup.program[k].kind = kind}

\* the capacity of the array of one kind
CapacityOf(kind) ==
    CASE kind = "actuator" -> CONFIG_MAX_ACTUATORS
      [] kind = "clickable" -> setup.maxClickables
      [] kind = "indicator" -> CONFIG_MAX_INDICATORS

\* the program registers more objects of the kind than fit / two with one id
Overflows(kind) == Cardinality(CallsOf(kind, Len(setup.program))) > CapacityOf(kind)
HasDuplicate(kind) ==
    \E j, k \in CallsOf(kind, Len(setup.program)) :
        j < k /\ setup.program[j].c.id = setup.program[k].c.id

BadConfiguration ==
    \/ \E kind \in {"actuator", "clickable", "indicator"} : Overflows(kind)
    \/ HasDuplicate("actuator")
    \/ HasDuplicate("clickable")

\* the next add call finds its array full
NextCallOverflows ==
    LET done == Len(setup.program) - Len(setup.todo)
        kind == Head(setup.todo).kind
    IN Cardinality(CallsOf(kind, done)) >= CapacityOf(kind)

\* C20: with a configuration that registers too many actuators, clickables or
\* indicators, or two actuators or two clickables with one id, setup never gets
\* past configure/finalize: no BOOT, no loop iteration, and nothing follows the
\* reset.  An add call that finds its array full resets at once and writes
\* nothing, any other add call registers and goes on; finalize resets exactly
\* when ids are duplicated, which is when a map is smaller than its counter
C20_BadConfigurationIsFatal ==
    [][/\ BadConfiguration => (pc' \in {"configure", "reset"} /\ out' = <<>>)
       /\ pc # "reset"
       /\ (pc = "configure" /\ setup.todo # <<>>)
          => IF NextCallOverflows
             THEN pc' = "reset"
                  /\ UNCHANGED <<cfg, actuators, clickables, indicators, setup>>
             ELSE pc' = "configure" /\ setup'.todo = Tail(setup.todo)
       /\ (pc = "configure" /\ setup.todo = <<>>)
          => (/\ pc' = IF HasDuplicate("actuator") \/ HasDuplicate("clickable")
                       THEN "reset" ELSE "boot"
              /\ HasDuplicate("actuator")
                 <=> Cardinality(DOMAIN setup.actuatorsMap) # setup.totalActuators
              /\ HasDuplicate("clickable")
                 <=> Cardinality(DOMAIN setup.clickablesMap) # setup.totalClickables)
       /\ DOMAIN actuators' \subseteq 0 .. CONFIG_MAX_ACTUATORS - 1
       /\ DOMAIN clickables' \subseteq 0 .. setup.maxClickables - 1
       /\ DOMAIN indicators' \subseteq 0 .. CONFIG_MAX_INDICATORS - 1]_vars

\* finalize has reset a device whose only fault is two clickables with one id
C20_Witness ==
    /\ pc = "reset"
    /\ setup.todo = <<>>
    /\ HasDuplicate("clickable")
    /\ ~HasDuplicate("actuator")
    /\ \A kind \in {"actuator", "clickable", "indicator"} : ~Overflows(kind)

----------------------------------------------------------------------------
(* Records the dispatcher turns down *)

ActuatorIds == {cfg.act[k].id : k \in 1 .. Len(cfg.act)}
ClickableIds == {cfg.clk[k].id : k \in 1 .. Len(cfg.clk)}

\* f decodes, and has a missing or unknown command, a SET_STATE state that is
\* no vector of one element per actuator, an id of no registered actuator or
\* clickable, or a click type other than 1 and 2
IsInvalidRecord(f) ==
    /\ f.ok
    /\ \/ f.p \notin {4, 5, 10, 11, 12, 13, 14, 15, 16}
       \/ f.p = 12 /\ (f.s.kind # "array" \/ Len(f.s.v) # Len(cfg.act))
       \/ f.p = 13 /\ f.i \notin ActuatorIds
       \/ f.p \in {14, 16} /\ (f.i \notin ClickableIds \/ f.t \notin {1, 2})

\* C21: receiving such a record changes no actuator, adds or removes no
\* pending network click, writes nothing to the link, and gives a result with
\* both flags false, so that the loop's two flags stay as they were
C21_InvalidRecordIgnored ==
    [][(IsReceiveStep /\ IsInvalidRecord(RxFrame))
       => /\ UNCHANGED <<actuators, longClickedNetworkClickables,
                         superLongClickedNetworkClickables, out,
                         mustSendState, mustCheckNetworkClicks>>
          /\ dispatchResult' = DefaultResult]_vars

\* a FAILOVER_CLICK with click type 3 has just been received while the
\* clickable has a pending super-long click and an actuator is on
C21_Witness ==
    /\ doc = <<Frame(16, 1, 3, NullS)>>
    /\ 0 \in DOMAIN superLongClickedNetworkClickables
    /\ \E i \in ActIdx : actuators[i].actualState

----------------------------------------------------------------------------
(* SET_SINGLE_ACTUATOR *)

\* the index of the actuator addressed by the frame of a receive step
RxActuator == (CHOOSE k \in 1 .. Len(cfg.act) : cfg.act[k].id = RxFrame.i) - 1

\* C22: SET_SINGLE_ACTUATOR is applied only with the id of a registered
\* actuator and a state of 0 or 1, and then stateChanged tells whether the
\* actuator switched; with any other or no state nothing changes
C22_SingleActuatorValidated ==
    [][(IsReceiveStep /\ RxFrame.ok /\ RxFrame.p = 13)
       => IF /\ RxFrame.i \in ActuatorIds
             /\ RxFrame.s.kind = "int"
             /\ RxFrame.s.v[1] \in {0, 1}
          THEN /\ actuators' = [actuators EXCEPT ![RxActuator] =
                                    setState(@, RxFrame.s.v[1] = 1, now).a]
               /\ dispatchResult'.stateChanged <=> Switched(actuators, actuators', RxActuator)
          ELSE /\ UNCHANGED actuators
               /\ dispatchResult' = DefaultResult]_vars

----------------------------------------------------------------------------
(* Line buffer overflow *)

\* the step receives one character of the serial stream
IsCharStep == obs'.chars = obs.chars + 1

\* C23: a character of a line that has outgrown the buffer, its LF included,
\* never gets a record decoded or dispatched: the link state, the outbound
\* log and the actuators stay as they were; and after every LF the buffer is
\* empty, so that the next line is received from its first character
C23_OverflowDiscardsLine ==
    [][/\ (IsCharStep /\ obs.overflowed)
          => /\ obs'.decoded = obs.decoded
             /\ UNCHANGED <<actuators, out, firstValidPayloadReceived,
                            lastReceivedPayloadTime_ms, dispatchResult>>
       /\ (IsCharStep /\ obs.overflowed /\ ~obs'.overflowed) => inputBuffer' = <<>>]_vars

----------------------------------------------------------------------------
(* Order of the outbound messages of one iteration *)

IsRequestMsg(m) == m.p = 3 /\ m.c = 0
IsReplyMsg(m) == m = DetailsMsg \/ m.p = 2 \/ (m.p = 3 /\ m.c = 1)

\* the place of the k-th message of the iteration in the order PING, requests,
\* replies, gated broadcast
PhaseOf(k) ==
    CASE out[k] = PingMsg -> 0
      [] IsRequestMsg(out[k]) -> 1
      [] obs.gatedTx /\ k = Len(out) -> 3
      [] OTHER -> 2

OutInOrder ==
    /\ \A j, k \in 1 .. Len(out) : j < k => PhaseOf(j) <= PhaseOf(k)
    /\ Count(out, PingMsg) <= 1

\* the messages written by a step other than the head of an iteration
NewMsgs == SubSeq(out', Len(out) + 1, Len(out'))

\* C24: the head of an iteration writes at most the PING, the click passes
\* write only NETWORK_CLICK requests (c = 0), the receive steps only replies
\* (DEVICE_DETAILS, ACTUATORS_STATE, NETWORK_CLICK with c = 1), the timeout
\* check and the auto-off sweep nothing, and the last step at most the gated
\* ACTUATORS_STATE, which shows the actuators as every step of the iteration
\* left them; so the messages of an iteration are in that order
C24_OutboundOrder ==
    [][/\ OutInOrder'
       /\ pc = "start" => out' \in {<<>>, <<PingMsg>>}
       /\ pc = "click" => \A k \in 1 .. Len(NewMsgs) : IsRequestMsg(NewMsgs[k])
       /\ pc = "drain" => \A k \in 1 .. Len(NewMsgs) : IsReplyMsg(NewMsgs[k])
       /\ pc \in {"netcheck", "autooff"} => out' = out
       /\ pc = "send"
          => (/\ actuators' = actuators
              /\ pc' = "start"
              /\ IF obs'.gatedTx THEN out' = Append(out, StateMsg(actuators))
                 ELSE out' = out)
       /\ pc # "send" => ~obs'.gatedTx]_vars

\* an iteration has sent a NETWORK_CLICK request and, at its end, the gated
\* broadcast of a switch made in the same iteration
C24_Witness ==
    /\ pc = "start"
    /\ obs.gatedTx
    /\ Len(out) >= 2
    /\ IsRequestMsg(out[1])
    /\ \E i \in ActIdx : obs.lastSwitch[i] = now

----------------------------------------------------------------------------
(* Local behaviour and the network *)

\* what a run shows locally: actuators (the inputs of the indicators), the
\* click FSMs, the click event of the last poll and the click actions run
LocalView(R) ==
    [A |-> R.w.A, clickables |-> R.clickables, clickResult |-> R.clickResult,
     acts |-> R.w.acts]

\* C25: on a device without network-enabled clickables, two runs with the same
\* clock and the same button levels, whose inbound frames (PING, BOOT,
\* REQUEST_DETAILS, REQUEST_STATE, undecodable ones) and so whose link state
\* differ, show the same actuators, click FSMs, click events and click actions
\* at every step
C25_LocalIndependentOfNetwork ==
    runs # <<>> => LocalView(runs[1]) = LocalView(runs[2])

\* one run has the link up, the other has never decoded a frame, and both
\* have just run the same long click action that switched an actuator on
C25_Witness ==
    /\ runs # <<>>
    /\ isConnected(runs[1].w, now)
    /\ ~runs[2].w.firstValid
    /\ runs[1].w.acts = <<LocalAct(0, "LONG")>>
    /\ \E i \in ActIdx : runs[1].w.A[i].actualState /\ runs[1].w.A[i].lastTimeSwitched = now

----------------------------------------------------------------------------
(* The long click action *)

\* the members of a list of actuator indexes
Members(list) == {list[k] : k \in 1 .. Len(list)}

\* how many actuators of the list are on
OnCount(list) == Cardinality({i \in Members(list) : actuators[i].actualState})

\* the state a long click of the given type asks of its list
LongRequest(type, list) ==
    CASE type = "NORMAL" -> OnCount(list) * 2 < Len(list)
      [] type = "ON_ONLY" -> TRUE
      [] type = "OFF_ONLY" -> FALSE

\* the step is a call of longClick()
IsLongClickCall == obs'.call.op = "longClick"

----------------------------------------------------------------------------
(* The indicator refresh *)

\* the value of an indicator of the given mode over the list
IndicatorTarget(mode, list) ==
    CASE mode = "ANY" -> \E i \in Members(list) : actuators[i].actualState
      [] mode = "ALL" -> \A i \in Members(list) : actuators[i].actualState
      [] mode = "MAJORITY" -> OnCount(list) * 2 > Len(list)

\* the step is a call of Indicator::check()
IsIndicatorCall == obs'.call.op = "check"

\* C27: Indicator::check() computes ANY = at least one controlled actuator on,
\* ALL = every controlled actuator on, MAJORITY = on_count*2 > number of
\* controlled actuators (a tie gives off), whatever the actuator states; it
\* writes the pin iff that value differs from the cached indicator state, and
\* the cached state and the pin then hold the value
C27_IndicatorModes ==
    [][IsIndicatorCall =>
          /\ indicators'[0].actualState
                = IndicatorTarget(obs'.call.kind, obs'.call.list)
          /\ obs'.pinWritten
                <=> (IndicatorTarget(obs'.call.kind, obs'.call.list)
                        # indicators[0].actualState)
          /\ indicators'[0].hw = IF obs'.pinWritten
                                 THEN IndicatorTarget(obs'.call.kind, obs'.call.list)
                                 ELSE indicators[0].hw
    ]_vars

\* a MAJORITY refresh over both actuators has just run with exactly one of
\* them on, and switched a lit indicator off
C27_Witness ==
    /\ obs.call = Call("check", "MAJORITY", <<0, 1>>, FALSE)
    /\ obs.pinWritten
    /\ ~indicators[0].actualState
    /\ Cardinality({i \in ActIdx : actuators[i].actualState}) = 1

----------------------------------------------------------------------------
(* The static payloads *)

\* the code of a character of a payload (ASCII)
Ascii(ch) ==
    CASE ch = LF -> 10
      [] ch = "\"" -> 34
      [] ch = "4" -> 52
      [] ch = "5" -> 53
      [] ch = ":" -> 58
      [] ch = "p" -> 112
      [] ch = "{" -> 123
      [] ch = "}" -> 125

\* the bytes of a text
TextBytes(text) == [k \in 1 .. Len(text) |-> Ascii(text[k])]

\* a byte written as two hexadecimal digits
Hex(high, low) == 16 * high + low

\* the bytes the protocol fixes for a static payload: {"p":n} and LF as text,
\* 0x81 0xA1 0x70 n as MsgPack, n = 4 for BOOT and 5 for PING
FixedBytes(type, useMsgPack) ==
    IF useMsgPack
    THEN <<Hex(8, 1), Hex(10, 1), Hex(7, 0), Hex(0, IF type = "BOOT" THEN 4 ELSE 5)>>
    ELSE TextBytes(<<"{", "\"", "p", "\"", ":", IF type = "BOOT" THEN "4" ELSE "5", "}", LF>>)

\* the step is a call of serializeStaticJson()
IsStaticCall == obs'.call.op = "static"

\* C28: BOOT is always emitted and PING is emitted when canPing() allows it;
\* the bytes written are the fixed constants of the framing of the build
\* (text '{"p":4}' LF and '{"p":5}' LF, MsgPack 0x81 0xA1 0x70 0x04 and
\* 0x81 0xA1 0x70 0x05), and the emission sets lastSentPayloadTime_ms to the
\* cached time although sendJson() is not used
C28_StaticPayloadBytes ==
    [][IsStaticCall =>
          /\ obs'.call.kind = "BOOT" => obs'.written # <<>>
          /\ obs'.written # <<>>
                => /\ obs'.written = FixedBytes(obs'.call.kind, obs'.call.useMsgPack)
                   /\ lastSentPayloadTime_ms' = now
                   /\ out' = <<[p |-> IF obs'.call.kind = "BOOT" THEN 4 ELSE 5]>>
    ]_vars

\* a PING has just been written in MsgPack, after the counter wrapped since the
\* last message: the time of the last message moved to the cached time
C28_Witness ==
    /\ obs.call = Call("static", "PING", <<>>, TRUE)
    /\ obs.written = <<129, 161, 112, 5>>
    /\ lastSentPayloadTime_ms = now
    /\ now < obs.stamp

----------------------------------------------------------------------------
(* Time across the wrap of the counter *)

\* the clickable as it is while its level is being debounced, and while held
\* with no action fired yet, since its stored stateChangeTime
Debouncing == [clickables[0] EXCEPT !.currentState = "DEBOUNCING"]
Held == [currentState |-> "PRESSED", stateChangeTime |-> clickables[0].stateChangeTime,
         lastActionFired |-> "NONE"]

\* actuator i as it is when on since its stored lastTimeSwitched
SwitchedOn(i) == [actuators[i] EXCEPT !.actualState = TRUE]

\* C29: with the time kept in a counter that wraps to 0, every timing decision
\* taken on reference timestamps stored obs.elapsed milliseconds ago, less
\* than half the range of the counter, is the decision on the elapsed time
\* itself: actuator switch debounce, auto-off, clickable debounce, long and
\* super-long thresholds, network-click timeout, ping interval, connection
\* timeout, delay after receive, and the three sweep intervals of the loop
C29_WrapSafeTiming ==
    Settled =>
       /\ \A i \in ActIdx :
             /\ setState(actuators[i], ~actuators[i].actualState, now).changed
                   <=> obs.elapsed >= ACTUATOR_DEBOUNCE_TIME_MS
             /\ checkAutoOffTimer(SwitchedOn(i), cfg.act[i + 1], now).changed
                   <=> /\ cfg.act[i + 1].autoOffTimer_ms # 0
                       /\ obs.elapsed >= cfg.act[i + 1].autoOffTimer_ms
                       /\ obs.elapsed >= ACTUATOR_DEBOUNCE_TIME_MS
       /\ clickDetection(Debouncing, cfg.clk[1], TRUE, now).k.currentState = "PRESSED"
             <=> obs.elapsed >= CLICKABLE_DEBOUNCE_TIME_MS
       /\ clickDetection(Held, cfg.clk[1], TRUE, now).res = "SUPER_LONG_CLICK"
             <=> obs.elapsed >= CLICKABLE_SUPER_LONG_CLICK_TIME_MS
       /\ clickDetection(Held, cfg.clk[1], TRUE, now).res = "LONG_CLICK"
             <=> /\ obs.elapsed >= CLICKABLE_LONG_CLICK_TIME_MS
                 /\ obs.elapsed < CLICKABLE_SUPER_LONG_CLICK_TIME_MS
       /\ \A clickType \in {"LONG", "SUPER_LONG"} :
             0 \in DOMAIN mapOf(World, clickType)
                => (isNetworkClickExpired(World, 0, clickType, now).ret
                       <=> obs.elapsed > LCNB_TIMEOUT_MS)
       /\ canPing(World, now) <=> obs.elapsed > PING_INTERVAL_MS
       /\ isConnected(World, now)
             <=> (firstValidPayloadReceived /\ obs.elapsed < CONNECTION_TIMEOUT_MS)
       /\ canSendState(World, now) <=> obs.elapsed > DELAY_AFTER_RECEIVE_MS
       /\ Elapsed(now, lastClickablesCheck_ms) # 0 <=> obs.elapsed # 0
       /\ Elapsed(now, lastNetworkClickCheckTime_ms) > NETWORK_CLICK_CHECK_INTERVAL_MS
             <=> obs.elapsed > NETWORK_CLICK_CHECK_INTERVAL_MS
       /\ Elapsed(now, lastAutoOffCheckTime_ms) > ACTUATORS_AUTO_OFF_CHECK_INTERVAL_MS
             <=> obs.elapsed > ACTUATORS_AUTO_OFF_CHECK_INTERVAL_MS

\* the counter wrapped since the last valid frame, and the link has just
\* timed out
C29_Witness ==
    /\ Settled
    /\ firstValidPayloadReceived
    /\ now < lastReceivedPayloadTime_ms
    /\ obs.elapsed = CONNECTION_TIMEOUT_MS
    /\ ~isConnected(World, now)

----------------------------------------------------------------------------
(* FAILOVER_CLICK *)

\* the frame consumed by the step is a FAILOVER_CLICK naming a registered
\* clickable and a click type
IsFailoverClick ==
    /\ IsReceiveStep
    /\ RxFrame.ok /\ RxFrame.p = 16
    /\ RxFrame.i \in ClickableIds /\ RxFrame.t \in {1, 2}

\* the click kind the frame names, and the other one
RxKind == IF RxFrame.t = 1 THEN "LONG" ELSE "SUPER_LONG"
RxOtherKind == IF RxFrame.t = 1 THEN "SUPER_LONG" ELSE "LONG"

\* the fallback configured for the click the frame names is the local action
RxFallsBackLocally ==
    getNetworkFallback(cfg.clk[RxClickable + 1], RxKind) = "LOCAL_FALLBACK"

----------------------------------------------------------------------------
(* The pending maps *)

\* the step writes the request (c = 0) of the pair (i, kind)
Requests(i, kind) ==
    \E k \in 1 .. Len(NewMsgs) : NewMsgs[k] = NetworkClickMsg(i, kind, 0)

\* the step receives frame command p naming the pair (i, kind)
ReceivesFor(p, i, kind) ==
    /\ IsReceiveStep
    /\ RxFrame.ok /\ RxFrame.p = p
    /\ RxFrame.i = cfg.clk[i + 1].id /\ RxFrame.t = WireKind(kind)

\* the step is the timeout check of the loop, run
IsTimerPass ==
    \/ /\ pc = "netcheck"
       /\ lastNetworkClickCheckTime_ms' = now
       /\ mustCheckNetworkClicks
    \/ obs'.call.op = "timers"

\* C31: each pending map holds at most one entry per registered clickable, so
\* never more than its capacity; a request for a pair, pending or not, leaves
\* the map with that one entry for the pair, stamped with the time of the
\* request; an entry disappears only in a step that receives a
\* NETWORK_CLICK_ACK or a FAILOVER_CLICK for its pair or a FAILOVER, or in a
\* timeout check that finds it older than LCNB_TIMEOUT_MS
C31_OnePendingEntryPerPair ==
    [][\A kind \in Kinds :
          /\ DOMAIN PendingNext(kind) \subseteq 0 .. (Len(cfg.clk) - 1)
          /\ Cardinality(DOMAIN PendingNext(kind)) <= CONFIG_MAX_CLICKABLES
          /\ \A i \in ClkIdx :
                /\ Requests(i, kind)
                      => /\ DOMAIN PendingNext(kind) = DOMAIN PendingOf(kind) \cup {i}
                         /\ PendingNext(kind)[i] = now
                /\ (i \in DOMAIN PendingOf(kind) /\ i \notin DOMAIN PendingNext(kind))
                      => \/ ReceivesFor(14, i, kind)
                         \/ ReceivesFor(16, i, kind)
                         \/ IsReceiveStep /\ RxFrame.ok /\ RxFrame.p = 15
                         \/ IsTimerPass /\ Elapsed(now, PendingOf(kind)[i]) > LCNB_TIMEOUT_MS
    ]_vars

\* a long click has just been requested again while its earlier request was
\* still pending: the map holds the one entry, with the new time, and the
\* pending super-long click keeps its own
C31_Witness ==
    /\ obs.call = Call("request", "LONG", <<>>, FALSE)
    /\ obs.elapsed > 0
    /\ out # <<>> /\ out[Len(out)] = NetworkClickMsg(0, "LONG", 0)
    /\ DOMAIN longClickedNetworkClickables = {0}
    /\ longClickedNetworkClickables[0] = now
    /\ DOMAIN superLongClickedNetworkClickables = {0}
    /\ superLongClickedNetworkClickables[0] = obs.stamp
    /\ obs.stamp # now

----------------------------------------------------------------------------
(* The timeout check stays scheduled *)

\* the loop is between two iterations
IterationEnd == pc = "start"

\* C32: at the end of every iteration, if a pending map is not empty then
\* mustCheckNetworkClicks is true
C32_PendingKeepsCheckScheduled ==
    (IterationEnd
       /\ (DOMAIN longClickedNetworkClickables # {}
              \/ DOMAIN superLongClickedNetworkClickables # {}))
       => mustCheckNetworkClicks

\* an iteration ends in which the timeout check ran and a frame was received,
\* the long click being settled and the super-long click still pending
C32_Witness ==
    /\ IterationEnd
    /\ now > 0
    /\ lastNetworkClickCheckTime_ms = now
    /\ rxCount > 0
    /\ DOMAIN longClickedNetworkClickables = {}
    /\ DOMAIN superLongClickedNetworkClickables # {}
    /\ mustCheckNetworkClicks

----------------------------------------------------------------------------
(* How long a pending entry lives *)

\* the acts written by the step hold the fallback action of the pair
RunsFallback(i, kind) ==
    Count(acts', FallbackAct(i, kind)) = Count(acts, FallbackAct(i, kind)) + 1

\* the acts written by the step hold no fallback action of the pair
RunsNoFallback(i, kind) ==
    Count(acts', FallbackAct(i, kind)) <= Count(acts, FallbackAct(i, kind))

\* the step writes the confirmation (c = 1) of the pair (i, kind)
Confirms(i, kind) ==
    \E k \in 1 .. Len(NewMsgs) : NewMsgs[k] = NetworkClickMsg(i, kind, 1)

\* C33: with the loop running at least once per millisecond, no pending entry
\* is older than LCNB_TIMEOUT_MS + NETWORK_CLICK_CHECK_INTERVAL_MS + 2 ms; an
\* entry that goes has been confirmed by an ACK, or removed by a FAILOVER or
\* FAILOVER_CLICK, or has timed out with its fallback decided: the local
\* action run if the fallback is LOCAL_FALLBACK and not run otherwise
C33_PendingEntryLifetime ==
    [][\A kind \in Kinds : \A i \in ClkIdx :
          /\ i \in DOMAIN PendingNext(kind)
                => now' - PendingNext(kind)[i]
                      <= LCNB_TIMEOUT_MS + NETWORK_CLICK_CHECK_INTERVAL_MS + 2
          /\ (i \in DOMAIN PendingOf(kind) /\ i \notin DOMAIN PendingNext(kind))
                => \/ Confirms(i, kind)
                   \/ ReceivesFor(16, i, kind)
                   \/ IsReceiveStep /\ RxFrame.ok /\ RxFrame.p = 15
                   \/ /\ now - PendingOf(kind)[i] > LCNB_TIMEOUT_MS
                      /\ IF FallbackOf(cfg.clk[i + 1], kind) = "LOCAL_FALLBACK"
                         THEN RunsFallback(i, kind)
                         ELSE RunsNoFallback(i, kind)
    ]_vars

\* the lifetime alone: an entry is at most LCNB_TIMEOUT_MS +
\* NETWORK_CLICK_CHECK_INTERVAL_MS old when an iteration ends, and one
\* millisecond more within an iteration
PendingEntryBound ==
    \A kind \in Kinds : \A i \in DOMAIN PendingOf(kind) :
       now - PendingOf(kind)[i]
          <= LCNB_TIMEOUT_MS + NETWORK_CLICK_CHECK_INTERVAL_MS
                + (IF IterationEnd THEN 0 ELSE 1)

----------------------------------------------------------------------------
(* Requests, confirmations and fallbacks *)

\* the pair (i, kind) is pending before the step and not after it
Settles(i, kind) ==
    i \in DOMAIN PendingOf(kind) /\ i \notin DOMAIN PendingNext(kind)

\* C34: for every pair, an entry enters the pending map only in a step that
\* sends its NETWORK_CLICK c=0; a step sends c=1 for the pair, or runs its
\* fallback action, only by taking its pending entry out of the map, and never
\* does both, nor either twice.  So in every prefix of a run the c=1 messages
\* of a pair are at most as many as its c=0 messages, and no pending entry is
\* both confirmed and fallen back
C34_ConfirmOrFallbackOnce ==
    [][\A kind \in Kinds : \A i \in ClkIdx :
          /\ (i \in DOMAIN PendingNext(kind) /\ i \notin DOMAIN PendingOf(kind))
                => Requests(i, kind)
          /\ Confirms(i, kind)
                => /\ Settles(i, kind)
                   /\ RunsNoFallback(i, kind)
                   /\ Count(NewMsgs, NetworkClickMsg(i, kind, 1)) = 1
                   /\ ~Requests(i, kind)
          /\ ~RunsNoFallback(i, kind)
                => /\ Settles(i, kind)
                   /\ RunsFallback(i, kind)
                   /\ ~Confirms(i, kind)
                   /\ ~Requests(i, kind)
    ]_vars

\* the timeout check has just run the fallback of the long click: its entry
\* is gone, no confirmation was written in the iteration, and the super-long
\* click is still pending
C34_Witness ==
    /\ pc = "autooff"
    /\ acts # <<>> /\ acts[Len(acts)] = FallbackAct(0, "LONG")
    /\ lastNetworkClickCheckTime_ms = now
    /\ 0 \notin DOMAIN longClickedNetworkClickables
    /\ 0 \in DOMAIN superLongClickedNetworkClickables
    /\ Count(out, NetworkClickMsg(0, "LONG", 1)) = 0

\* C35: no actuator change is lost to observers: a step that switches an
\* actuator, whatever its cause, leaves must_send_state raised, and whenever
\* must_send_state is false at the end of an iteration no actuator has
\* switched since the most recent gated ACTUATORS_STATE (or since boot), so the
\* current states are the ones that broadcast carried
C35_NoChangeLost ==
    [][/\ (\E i \in ActIdx : Switched(actuators, actuators', i)) => mustSendState'
       /\ (pc' = "start" /\ ~mustSendState') => ~obs'.changedSince]_vars

C35_Witness ==
    /\ IterationEnd
    /\ ~mustSendState
    /\ obs.gatedTx
    /\ \E i \in ActIdx : actuators[i].actualState

\* indicator i shows its mode function of the current actuator states
IndicatorCurrent(i) ==
    indicators[i].actualState = indicatorValue(actuators, cfg.ind[i + 1])

\* C36: whenever must_send_state is false at the end of a loop iteration every
\* indicator with a non-empty actuator list shows its mode function of the
\* current actuator states, and the indicators are refreshed only together
\* with a gated broadcast: no other step, a REQUEST_STATE or BOOT reply
\* included, changes them
C36_IndicatorsFollowBroadcast ==
    /\ [](IterationEnd /\ ~mustSendState =>
             \A i \in IndIdx :
                 cfg.ind[i + 1].controlledActuators # <<>> => IndicatorCurrent(i))
    /\ [][indicators' # indicators => IsSendStep /\ obs'.gatedTx]_vars

C36_Witness ==
    /\ IterationEnd
    /\ ~mustSendState
    /\ obs.gatedTx
    /\ \E i \in IndIdx :
          /\ cfg.ind[i + 1].controlledActuators # <<>>
          /\ indicators[i].actualState
          /\ IndicatorCurrent(i)

----------------------------------------------------------------------------
(* Arrays that are not full *)

\* the number of objects of a kind that the add calls registered
RegisteredOf(kind) ==
    CASE kind = "actuator" -> setup.totalActuators
      [] kind = "clickable" -> setup.totalClickables
      [] kind = "indicator" -> setup.totalIndicators

\* C37: with fewer actuators or clickables registered than the arrays hold,
\* finalize with its auto-off index precomputation, DEVICE_DETAILS and
\* ACTUATORS_STATE go through registered slots only, the auto-off indexes are
\* indexes of registered actuators, the device never stops on an unset slot,
\* and the ACTUATORS_STATE vector has as many elements as SET_STATE requires,
\* the number of registered actuators
C37_OnlyRegisteredSlots ==
    /\ \A v \in obs.visited : v.slot < RegisteredOf(v.kind)
    /\ \A k \in 1 .. Len(setup.actuatorsWithAutoOffIndexes) :
           setup.actuatorsWithAutoOffIndexes[k] < setup.totalActuators
    /\ pc # "fault"
    /\ \A k \in 1 .. Len(out) :
           /\ out[k].p = 2 => Len(out[k].s) = setup.totalActuators
           /\ out[k].p = 1 => /\ Len(out[k].a) = setup.totalActuators
                              /\ Len(out[k].b) = setup.totalClickables

----------------------------------------------------------------------------
(* The events of one press, all capabilities (single-clickable specification) *)

\* the timed click events
TimedEvents == {"LONG_CLICK", "SUPER_LONG_CLICK"}

\* the poll finds clickable 0 PRESSED and samples the level low: the only
\* polls of a pressed clickable that leave the sampled duration as it was
PolledLowWhilePressed ==
    clickables[0].currentState = "PRESSED" /\ obs'.held = obs.held

\* C38: within one press, from the poll that enters PRESSED until the FSM is
\* back in IDLE, a clickable emits at most one LONG_CLICK and at most one
\* SUPER_LONG_CLICK and no LONG_CLICK after a SUPER_LONG_CLICK; SHORT_CLICK is
\* returned only by the poll that releases the press and only if no timed
\* event was emitted in it; no poll leaves the FSM in RELEASED, and every poll
\* that samples the level low while PRESSED ends in IDLE
C38_EventsOfOnePress ==
    [][/\ Count(obs'.fired, "LONG_CLICK") <= 1
       /\ Count(obs'.fired, "SUPER_LONG_CLICK") <= 1
       /\ \A j, k \in 1 .. Len(obs'.fired) :
             (j < k /\ obs'.fired[j] = "SUPER_LONG_CLICK") => obs'.fired[k] # "LONG_CLICK"
       /\ clickResult' = "SHORT_CLICK"
          => (IsRelease /\ \A k \in 1 .. Len(obs.fired) : obs.fired[k] \notin TimedEvents)
       /\ clickables'[0].currentState # "RELEASED"
       /\ PolledLowWhilePressed => clickables'[0].currentState = "IDLE"
      ]_vars

\* a button with all three capabilities was held through both thresholds, poll
\* after poll, and just released: LONG_CLICK then SUPER_LONG_CLICK, no SHORT_CLICK
C38_Witness ==
    /\ cfg.clk[1].isShortClickable
    /\ cfg.clk[1].isLongClickable /\ cfg.clk[1].isSuperLongClickable
    /\ clickables[0].currentState = "IDLE"
    /\ obs.fired = <<"LONG_CLICK", "SUPER_LONG_CLICK">>
    /\ clickResult = "NO_CLICK"

----------------------------------------------------------------------------
(* The broadcast is not postponed forever *)

\* the gate of the broadcast is open: the last valid frame is old enough
GateOpen == Elapsed(now, lastReceivedPayloadTime_ms) > DELAY_AFTER_RECEIVE_MS

\* C39: once must_send_state is raised a gated ACTUATORS_STATE is eventually
\* emitted, the loop running on and valid frames no longer arriving at gaps of
\* DELAY_AFTER_RECEIVE_MS or less; it is emitted by the first iteration whose
\* send step finds now - last_received_valid_time > DELAY_AFTER_RECEIVE_MS,
\* and by no iteration that finds the gate closed
C39_BroadcastEventuallySent ==
    /\ mustSendState ~> obs.gatedTx
    /\ [][(IsSendStep /\ mustSendState)
          => /\ GateOpen => (obs'.gatedTx /\ ~mustSendState'
                             /\ out' = Append(out, StateMsg(actuators)))
             /\ ~GateOpen => (~obs'.gatedTx /\ mustSendState' /\ out' = out)]_vars

\* a SET_STATE raised the flag, the send step of that iteration found the gate
\* closed, and the broadcast went out in a later iteration
C39_Witness ==
    /\ IterationEnd
    /\ obs.gatedTx
    /\ ~mustSendState
    /\ lastReceivedPayloadTime_ms > 0
    /\ obs.lastSwitch[1] = lastReceivedPayloadTime_ms
    /\ now > lastReceivedPayloadTime_ms + DELAY_AFTER_RECEIVE_MS

============================================================================
